---- MODULE Spec2Model ----
(***************************************************************************)
(* A model of the conversation core of lmareeena: the session state        *)
(* machine (SessionManager.createSession / sendMessage /                   *)
(* addFillerAssistantMessage, Chat.shuffleSession), the turn generators    *)
(* runInference (legacy payload) and runInferenceV2 (revised payload) with *)
(* their recovery policy, and the line-oriented stream decoder             *)
(* (processLine and the read loop).                                        *)
(*                                                                         *)
(* Text is modelled as a sequence of one-character strings, so that        *)
(* indexOf, substring, trim, startsWith and JSON.parse are computed as the *)
(* code computes them.  Bytes of a response body are the same characters,  *)
(* plus the two bytes of one two-byte UTF-8 character.                     *)
(***************************************************************************)
EXTENDS Integers, Sequences, FiniteSets, TLC

\* ------------------------------------------------------------------------
\* Bounds of the model
\* ------------------------------------------------------------------------

\* calls a caller makes per behaviour: Chat.addMessage, Chat.sendMessage,
\* runInference, runInferenceV2 and Chat.shuffleSession together
MaxCalls == 3

\* most records in a response body of the decoder specification
MaxRecords == 2

\* ------------------------------------------------------------------------
\* JavaScript strings: indexOf, substring, trim, startsWith
\* ------------------------------------------------------------------------

NL == "\n"

QT == "\""

\* String.prototype.trim strips these (among the characters of the model)
WhiteSpace == {" ", "\t", "\n", "\r"}

RECURSIVE IndexFrom(_, _, _)
IndexFrom(s, c, i) ==
    IF i > Len(s) THEN -1
    ELSE IF s[i] = c THEN i - 1
    ELSE IndexFrom(s, c, i + 1)

\* s.indexOf(c): 0-based index of the first c, -1 when there is none
IndexOf(s, c) == IndexFrom(s, c, 1)

\* s.substring(a, b) with 0 <= a <= b
Substring(s, a, b) == SubSeq(s, a + 1, IF b > Len(s) THEN Len(s) ELSE b)

\* s.substring(a)
SubstringFrom(s, a) == SubSeq(s, a + 1, Len(s))

RECURSIVE TrimStart(_)
TrimStart(s) ==
    IF s # <<>> /\ Head(s) \in WhiteSpace THEN TrimStart(Tail(s)) ELSE s

RECURSIVE TrimEnd(_)
TrimEnd(s) ==
    IF s # <<>> /\ s[Len(s)] \in WhiteSpace
    THEN TrimEnd(SubSeq(s, 1, Len(s) - 1))
    ELSE s

\* s.trim()
Trim(s) == TrimEnd(TrimStart(s))

\* ------------------------------------------------------------------------
\* JavaScript values decoded from JSON
\* ------------------------------------------------------------------------

JStr(cs) == [t |-> "string", v |-> cs]

JNum(cs) == [t |-> "number", v |-> cs]

JBool(cs) == [t |-> "boolean", v |-> cs]

JNull == [t |-> "null", v |-> <<>>]

JUndefined == [t |-> "undefined", v |-> <<>>]

JArr(items) == [t |-> "array", v |-> items]

\* an object is the sequence of its members [k |-> key, v |-> value]
JObj(members) == [t |-> "object", v |-> members]

RECURSIVE GetFrom(_, _, _)
GetFrom(members, key, i) ==
    IF i = 0 THEN JUndefined
    ELSE IF members[i].k = key THEN members[i].v
    ELSE GetFrom(members, key, i - 1)

\* value.key: the last member of that name wins; a missing property, or a
\* property of a primitive, is undefined.  (null.key raises.)
Get(val, key) ==
    IF val.t = "object" THEN GetFrom(val.v, key, Len(val.v)) ELSE JUndefined

\* ToBoolean
Truthy(val) ==
    CASE val.t = "string" -> val.v # <<>>
      [] val.t = "number" -> val.v \notin {<<"0">>, <<"-", "0">>}
      [] val.t = "boolean" -> val.v = <<"t", "r", "u", "e">>
      [] val.t \in {"null", "undefined"} -> FALSE
      [] OTHER -> TRUE

\* `${val}` for the values an error body carries
TemplateString(val) ==
    CASE val.t \in {"string", "number", "boolean"} -> val.v
      [] val.t = "null" -> <<"n", "u", "l", "l">>
      [] val.t = "undefined" ->
            <<"u", "n", "d", "e", "f", "i", "n", "e", "d">>
      [] val.t = "array" /\ val.v = <<>> -> <<>>
      [] OTHER -> <<"[", "o", "b", "j", "e", "c", "t", " ",
                    "O", "b", "j", "e", "c", "t", "]">>

\* ------------------------------------------------------------------------
\* JSON.parse, for texts without escape sequences, fractions and exponents
\* ------------------------------------------------------------------------

Digits == {"0", "1", "2", "3", "4", "5", "6", "7", "8", "9"}

ParseFail == [ok |-> FALSE, v |-> JNull, i |-> 0]

ParseOk(val, next) == [ok |-> TRUE, v |-> val, i |-> next]

RECURSIVE SkipWs(_, _)
SkipWs(s, i) ==
    IF i <= Len(s) /\ s[i] \in {" ", "\t", "\n", "\r"} THEN SkipWs(s, i + 1) ELSE i

RECURSIVE StringEnd(_, _)
\* index of the quote closing a string whose body starts at i, 0 when the
\* string is unterminated or holds a control character or a backslash
StringEnd(s, i) ==
    IF i > Len(s) THEN 0
    ELSE IF s[i] = QT THEN i
    ELSE IF s[i] \in {"\n", "\r", "\t", "\\"} THEN 0
    ELSE StringEnd(s, i + 1)

ParseString(s, i) ==
    LET e == StringEnd(s, i + 1)
    IN  IF e = 0 THEN ParseFail ELSE ParseOk(JStr(SubSeq(s, i + 1, e - 1)), e + 1)

RECURSIVE DigitsEnd(_, _)
DigitsEnd(s, i) ==
    IF i <= Len(s) /\ s[i] \in Digits THEN DigitsEnd(s, i + 1) ELSE i

ParseNumber(s, i) ==
    LET d == IF s[i] = "-" THEN i + 1 ELSE i
        e == DigitsEnd(s, d)
    IN  IF e = d THEN ParseFail
        ELSE IF s[d] = "0" /\ e > d + 1 THEN ParseOk(JNum(SubSeq(s, i, d)), d + 1)
        ELSE ParseOk(JNum(SubSeq(s, i, e - 1)), e)

ParseWord(s, i, word, val) ==
    IF i + Len(word) - 1 <= Len(s) /\ SubSeq(s, i, i + Len(word) - 1) = word
    THEN ParseOk(val, i + Len(word))
    ELSE ParseFail

RECURSIVE ParseValue(_, _)
RECURSIVE ParseElements(_, _, _)
RECURSIVE ParseMembers(_, _, _)

\* the value that starts at the first non-blank character from i on
ParseValue(s, i0) ==
    LET i == SkipWs(s, i0)
    IN  IF i > Len(s) THEN ParseFail
        ELSE IF s[i] = QT THEN ParseString(s, i)
        ELSE IF s[i] \in Digits \cup {"-"} THEN ParseNumber(s, i)
        ELSE IF s[i] = "n" THEN ParseWord(s, i, <<"n", "u", "l", "l">>, JNull)
        ELSE IF s[i] = "t"
             THEN ParseWord(s, i, <<"t", "r", "u", "e">>,
                            JBool(<<"t", "r", "u", "e">>))
        ELSE IF s[i] = "f"
             THEN ParseWord(s, i, <<"f", "a", "l", "s", "e">>,
                            JBool(<<"f", "a", "l", "s", "e">>))
        ELSE IF s[i] = "["
             THEN LET j == SkipWs(s, i + 1)
                  IN  IF j <= Len(s) /\ s[j] = "]"
                      THEN ParseOk(JArr(<<>>), j + 1)
                      ELSE ParseElements(s, i + 1, <<>>)
        ELSE IF s[i] = "{"
             THEN LET j == SkipWs(s, i + 1)
                  IN  IF j <= Len(s) /\ s[j] = "}"
                      THEN ParseOk(JObj(<<>>), j + 1)
                      ELSE ParseMembers(s, i + 1, <<>>)
        ELSE ParseFail

\* the elements of an array after its "[" or a ",", up to its "]"
ParseElements(s, i, acc) ==
    LET r == ParseValue(s, i)
        j == SkipWs(s, r.i)
    IN  IF ~r.ok \/ j > Len(s) THEN ParseFail
        ELSE IF s[j] = "," THEN ParseElements(s, j + 1, Append(acc, r.v))
        ELSE IF s[j] = "]" THEN ParseOk(JArr(Append(acc, r.v)), j + 1)
        ELSE ParseFail

\* the members of an object after its "{" or a ",", up to its "}"
ParseMembers(s, i0, acc) ==
    LET i == SkipWs(s, i0)
        k == IF i <= Len(s) /\ s[i] = QT THEN ParseString(s, i) ELSE ParseFail
        c == SkipWs(s, k.i)
        r == IF k.ok /\ c <= Len(s) /\ s[c] = ":"
             THEN ParseValue(s, c + 1)
             ELSE ParseFail
        j == SkipWs(s, r.i)
        m == Append(acc, [k |-> k.v.v, v |-> r.v])
    IN  IF ~r.ok \/ j > Len(s) THEN ParseFail
        ELSE IF s[j] = "," THEN ParseMembers(s, j + 1, m)
        ELSE IF s[j] = "}" THEN ParseOk(JObj(m), j + 1)
        ELSE ParseFail

\* JSON.parse(s): ok is FALSE where JSON.parse throws a SyntaxError
JSONParse(s) ==
    LET r == ParseValue(s, 1)
    IN  IF r.ok /\ SkipWs(s, r.i) > Len(s) THEN r ELSE ParseFail

\* ------------------------------------------------------------------------
\* Wire messages and stream events
\* ------------------------------------------------------------------------

\* no identifier: "" (createSession) or a message passed without an id
NoId == 0

\* the slot `delete array[i]` leaves behind: the array keeps its length, the
\* index is skipped by for-in and read as undefined by find and by indexing
Hole ==
    [id |-> NoId, role |-> "<empty>", content |-> <<>>,
     experimental_attachments |-> <<>>, parentMessageIds |-> <<>>,
     status |-> "<empty>", evaluationSessionId |-> NoId]

IsHole(m) == m.role = "<empty>"

Code(a, b) == <<a, b>>

Event(code, data) == [event |-> code, data |-> data]

TypeKey == <<"t", "y", "p", "e">>

NameKey == <<"n", "a", "m", "e">>

ImageStr == JStr(<<"i", "m", "a", "g", "e">>)

\* ------------------------------------------------------------------------
\* TextDecoder.decode(value, { stream: true }) for UTF-8
\* ------------------------------------------------------------------------

\* the two bytes of the one two-byte character of the model, and what the
\* decoder emits for them and for an ill-formed sequence
LeadByte == "<C3>"

ContByte == "<A9>"

ReplacementChar == "<U+FFFD>"

\* what the decoder emits on the byte b; lead: the byte before it was a lead
\* byte, which waits for its continuation byte
Utf8Piece(lead, b) ==
    IF lead
    THEN IF b = ContByte THEN <<"<U+00E9>">>
         ELSE IF b = LeadByte THEN <<ReplacementChar>>
         ELSE <<ReplacementChar, b>>
    ELSE IF b = LeadByte THEN <<>>
    ELSE IF b = ContByte THEN <<ReplacementChar>>
    ELSE <<b>>

RECURSIVE Utf8Decode(_, _)
\* the text emitted for bytes, by halves: what a byte emits depends on the
\* byte before it only
Utf8Decode(lead, bytes) ==
    IF bytes = <<>> THEN <<>>
    ELSE IF Len(bytes) = 1 THEN Utf8Piece(lead, bytes[1])
    ELSE LET h == Len(bytes) \div 2
         IN  Utf8Decode(lead, SubSeq(bytes, 1, h))
                 \o Utf8Decode(bytes[h] = LeadByte,
                               SubSeq(bytes, h + 1, Len(bytes)))

\* decoder.decode(value, { stream: true }): the text of one chunk and the
\* decoder's state after it (a lead byte that ends the chunk waits)
DecodeChunk(lead, bytes) ==
    [text |-> Utf8Decode(lead, bytes),
     lead |-> IF bytes = <<>> THEN lead ELSE bytes[Len(bytes)] = LeadByte]

\* ------------------------------------------------------------------------
\* processLine (the same code in runInference and runInferenceV2)
\* ------------------------------------------------------------------------

\* the result of processLine: y is FALSE where it returns null; def and m
\* are assistantMessageForTurn (def is FALSE when it is undefined)
LineResult(y, ev, m) == [y |-> y, ev |-> ev, m |-> m]

NoEvent == Event(<<>>, JUndefined)

ImageAttachment(item) ==
    [contentType |-> Get(item, <<"m", "i", "m", "e", "T", "y", "p", "e">>),
     name |-> IF Truthy(Get(item, NameKey)) THEN Get(item, NameKey) ELSE ImageStr,
     url |-> Get(item, <<"i", "m", "a", "g", "e">>)]

RECURSIVE PushImages(_, _, _, _)
\* for (const item of items) { if (item.type === "image") push(...) }:
\* ok is FALSE where the loop raises a TypeError (item is null, or the
\* message to push to is undefined); what was pushed before stays pushed
PushImages(items, i, def, atts) ==
    IF i > Len(items) THEN [ok |-> TRUE, atts |-> atts]
    ELSE IF items[i].t \in {"null", "undefined"} THEN [ok |-> FALSE, atts |-> atts]
    ELSE IF Get(items[i], TypeKey) = ImageStr
         THEN IF ~def THEN [ok |-> FALSE, atts |-> atts]
              ELSE PushImages(items, i + 1, def,
                              Append(atts, ImageAttachment(items[i])))
    ELSE PushImages(items, i + 1, def, atts)

\* the items for-of iterates: the elements of an array, the characters of a
\* string (each a string, so none has a type)
IterItems(data) ==
    IF data.t = "array" THEN data.v ELSE [i \in 1..Len(data.v) |-> JStr(<<data.v[i]>>)]

\* ProcessData with the text assigned: assistantMessageForTurn.content = data
ProcessData_Assigns(eventCode, data, def, m) ==
    IF eventCode = Code("a", "0") /\ data.t = "string"
    THEN IF ~def THEN LineResult(FALSE, NoEvent, m)
         ELSE LineResult(TRUE, Event(eventCode, data),
                         [m EXCEPT !.content = data.v])
    ELSE IF eventCode = Code("a", "2")
    THEN IF data.t \notin {"array", "string"} THEN LineResult(FALSE, NoEvent, m)
         ELSE LET r == PushImages(IterItems(data), 1, def,
                                  m.experimental_attachments)
                  mm == IF def
                        THEN [m EXCEPT !.experimental_attachments = r.atts]
                        ELSE m
              IN  IF r.ok THEN LineResult(TRUE, Event(eventCode, data), mm)
                  ELSE LineResult(FALSE, NoEvent, mm)
    ELSE IF eventCode = Code("a", "d")
    THEN IF ~def THEN LineResult(FALSE, NoEvent, m)
         ELSE LineResult(TRUE, Event(eventCode, data),
                         [m EXCEPT !.status = "success"])
    ELSE LineResult(TRUE, Event(eventCode, data), m)

\* ProcessData with the records of every other code dropped
ProcessData_OtherDropped(eventCode, data, def, m) ==
    IF eventCode = Code("a", "0") /\ data.t = "string"
    THEN IF ~def THEN LineResult(FALSE, NoEvent, m)
         ELSE LineResult(TRUE, Event(eventCode, data),
                         [m EXCEPT !.content = m.content \o data.v])
    ELSE IF eventCode = Code("a", "2")
    THEN IF data.t \notin {"array", "string"} THEN LineResult(FALSE, NoEvent, m)
         ELSE LET r == PushImages(IterItems(data), 1, def,
                                  m.experimental_attachments)
                  mm == IF def
                        THEN [m EXCEPT !.experimental_attachments = r.atts]
                        ELSE m
              IN  IF r.ok THEN LineResult(TRUE, Event(eventCode, data), mm)
                  ELSE LineResult(FALSE, NoEvent, mm)
    ELSE IF eventCode = Code("a", "d")
    THEN IF ~def THEN LineResult(FALSE, NoEvent, m)
         ELSE LineResult(TRUE, Event(eventCode, data),
                         [m EXCEPT !.status = "success"])
    ELSE LineResult(FALSE, NoEvent, m)

ProcessData(eventCode, data, def, m) ==
    IF eventCode = Code("a", "0") /\ data.t = "string"
    THEN IF ~def THEN LineResult(FALSE, NoEvent, m)
         ELSE LineResult(TRUE, Event(eventCode, data),
                         [m EXCEPT !.content = m.content \o data.v])
    ELSE IF eventCode = Code("a", "2")
    THEN IF data.t \notin {"array", "string"} THEN LineResult(FALSE, NoEvent, m)
         ELSE LET r == PushImages(IterItems(data), 1, def,
                                  m.experimental_attachments)
                  mm == IF def
                        THEN [m EXCEPT !.experimental_attachments = r.atts]
                        ELSE m
              IN  IF r.ok THEN LineResult(TRUE, Event(eventCode, data), mm)
                  ELSE LineResult(FALSE, NoEvent, mm)
    ELSE IF eventCode = Code("a", "d")
    THEN IF ~def THEN LineResult(FALSE, NoEvent, m)
         ELSE LineResult(TRUE, Event(eventCode, data),
                         [m EXCEPT !.status = "success"])
    ELSE LineResult(TRUE, Event(eventCode, data), m)

\* processLine without its catch of the SyntaxError: the record is
\* forwarded with no data
processLine_Uncaught(line, def, m) ==
    IF Len(line) < 4 THEN LineResult(FALSE, NoEvent, m)
    ELSE LET eventCode == Substring(line, 0, 2)
             firstColonIndex == IndexOf(line, ":")
             payloadString == SubstringFrom(line, firstColonIndex + 1)
             parsed == JSONParse(payloadString)
         IN  IF firstColonIndex = -1 THEN LineResult(FALSE, NoEvent, m)
             ELSE IF ~parsed.ok
             THEN LineResult(TRUE, Event(eventCode, JUndefined), m)
             ELSE ProcessData(eventCode, parsed.v, def, m)

processLine(line, def, m) ==
    IF Len(line) < 4 THEN LineResult(FALSE, NoEvent, m)
    ELSE LET eventCode == Substring(line, 0, 2)
             firstColonIndex == IndexOf(line, ":")
             payloadString == SubstringFrom(line, firstColonIndex + 1)
             parsed == JSONParse(payloadString)
         IN  IF firstColonIndex = -1 THEN LineResult(FALSE, NoEvent, m)
             ELSE IF ~parsed.ok THEN LineResult(FALSE, NoEvent, m)
             ELSE ProcessData(eventCode, parsed.v, def, m)

\* ------------------------------------------------------------------------
\* The read loop over the response body
\* ------------------------------------------------------------------------

\* the loop's state: buffer, the decoder's waiting lead byte, the events
\* yielded so far and assistantMessageForTurn
LoopState(buffer, lead, events, def, m) ==
    [buffer |-> buffer, lead |-> lead, events |-> events, def |-> def, m |-> m]

Yielded(st, r) ==
    [st EXCEPT !.events = IF r.y THEN Append(st.events, r.ev) ELSE st.events,
               !.m = r.m]

\* AppendChunk with the buffer overwritten: buffer = decoder.decode(...)
AppendChunk_Overwrite(st, bytes) ==
    LET d == DecodeChunk(st.lead, bytes)
    IN  [st EXCEPT !.buffer = d.text, !.lead = d.lead]

\* buffer += decoder.decode(value, { stream: true })
AppendChunk(st, bytes) ==
    LET d == DecodeChunk(st.lead, bytes)
    IN  [st EXCEPT !.buffer = st.buffer \o d.text, !.lead = d.lead]

HasBoundary(st) == IndexOf(st.buffer, NL) # -1

\* one iteration of `while (boundary !== -1)`
LineStep(st) ==
    LET boundary == IndexOf(st.buffer, NL)
        line == Trim(Substring(st.buffer, 0, boundary))
        rest == [st EXCEPT !.buffer = SubstringFrom(st.buffer, boundary + 1)]
    IN  IF line # <<>> THEN Yielded(rest, processLine(line, st.def, st.m))
        ELSE rest

\* the `done` branch without the handling of leftovers
Leftover_Dropped(st) == st

\* the `done` branch: a non-empty buffer is processed as the last record
Leftover(st) ==
    IF st.buffer # <<>> THEN Yielded(st, processLine(st.buffer, st.def, st.m))
    ELSE st

RECURSIVE Drain(_)
Drain(st) == IF HasBoundary(st) THEN Drain(LineStep(st)) ELSE st

\* the whole loop when the body arrives as the one chunk `bytes`
DecodeWhole(bytes, def, m) ==
    Leftover(Drain(AppendChunk(LoopState(<<>>, FALSE, <<>>, def, m), bytes)))

\* ------------------------------------------------------------------------
\* Identifiers
\* ------------------------------------------------------------------------

\* randomUUID(): the first identifier it returns; each call returns the next
FirstUuid == 10

\* id.toLowerCase(): an identifier of the model stands for a lower-case
\* UUID string, which toLowerCase returns as it is
ToLowerCase(id) == id

\* ------------------------------------------------------------------------
\* Session state machine (SessionManager, Chat)
\* ------------------------------------------------------------------------

createSession(sessionId) ==
    [lmSession |-> [id |-> sessionId, messages |-> <<>>,
                    modelAMessageId |-> NoId, userMessageId |-> NoId],
     doesSessionExist |-> FALSE,
     sessionId |-> sessionId,
     messages |-> <<>>]

\* a message a caller sends; its text is always "hi"
ChatMessage(role, id) ==
    [role |-> role, content |-> <<"h", "i">>, attachments |-> <<>>, id |-> id]

\* what a caller may pass to sendMessage: a message without an id, or with
\* the id 1 the caller gave it
Messages ==
    {ChatMessage("user", NoId), ChatMessage("assistant", NoId),
     ChatMessage("user", 1)}

\* an attachment a caller passes.  r2BucketUrl is the hosted URL, null, or
\* undefined where the caller left the property out (content, the bytes,
\* is left out: the conversion does not read it); upload is what
\* uploadAttachmentToR2 does when called for it: "ok" (it returns the
\* key "k2" and the URL UploadedUrl) or "raises"
Attachment(r2Key, r2BucketUrl, upload) ==
    [mime |-> JStr(<<"m">>), r2Key |-> r2Key, r2BucketUrl |-> r2BucketUrl,
     upload |-> upload]

UploadedUrl == JStr(<<"v">>)

\* the attachments of the messages: hosted, to be uploaded (with either
\* outcome), and one the caller built without r2Key and r2BucketUrl
Attachments ==
    {Attachment(JStr(<<"k">>), JStr(<<"u">>), "ok"),
     Attachment(JNull, JNull, "ok"),
     Attachment(JNull, JNull, "raises"),
     Attachment(JUndefined, JUndefined, "ok")}

\* user messages with one attachment, and with two
AttachedMessages ==
    {[ChatMessage("user", NoId) EXCEPT !.attachments = atts] :
        atts \in {<<a>> : a \in Attachments}
                    \cup {<<Attachment(JNull, JNull, "ok"), a>> :
                              a \in Attachments}}

\* the attachment uploadAttachmentToR2 is called for
ToUpload(att) == att.r2BucketUrl = JNull

\* uploadAttachmentToR2 raises for one of the attachments
UploadRaises(atts) ==
    \E i \in 1..Len(atts) : ToUpload(atts[i]) /\ atts[i].upload = "raises"

\* the calls of uploadAttachmentToR2 made for the attachments, the raising
\* one included; each draws one identifier (the name of the file)
UploadsRun(atts) ==
    Cardinality({i \in 1..Len(atts) :
                    /\ ToUpload(atts[i])
                    /\ \A j \in 1..(i - 1) :
                           ToUpload(atts[j]) => atts[j].upload = "ok"})

\* the loop over chatMessage.attachments, where no upload raises
PushAttachments(atts) ==
    [i \in 1..Len(atts) |->
        IF atts[i].r2BucketUrl # JNull
        THEN [contentType |-> atts[i].mime, name |-> atts[i].r2Key,
              url |-> atts[i].r2BucketUrl]
        ELSE [contentType |-> atts[i].mime, name |-> JStr(<<"k", "2">>),
              url |-> UploadedUrl]]

convertChatMessageToLMMessage(s, chatMessage) ==
    [id |-> chatMessage.id, role |-> chatMessage.role,
     content |-> chatMessage.content,
     experimental_attachments |-> PushAttachments(chatMessage.attachments),
     parentMessageIds |-> <<>>, status |-> "pending",
     evaluationSessionId |-> s.sessionId]

\* addFillerAssistantMessage with the filler left without its parent
addFillerAssistantMessage_NoParent(s, replyingToId, assistantMessageId) ==
    LET fillerMessage ==
            [id |-> assistantMessageId, role |-> "assistant", content |-> <<>>,
             experimental_attachments |-> <<>>,
             parentMessageIds |-> <<>>, status |-> "pending",
             evaluationSessionId |-> s.sessionId]
    IN  [s EXCEPT !.lmSession.messages = Append(@, fillerMessage)]

addFillerAssistantMessage(s, replyingToId, assistantMessageId) ==
    LET fillerMessage ==
            [id |-> assistantMessageId, role |-> "assistant", content |-> <<>>,
             experimental_attachments |-> <<>>,
             parentMessageIds |-> <<replyingToId>>, status |-> "pending",
             evaluationSessionId |-> s.sessionId]
    IN  [s EXCEPT !.lmSession.messages = Append(@, fillerMessage)]

\* sendMessage(session, message), for a message whose attachments need no
\* upload: the session after it and the next identifier randomUUID will
\* return
sendMessage(s, message, uuid) ==
    LET fresh == message.id = NoId
        msg == IF fresh THEN [message EXCEPT !.id = uuid] ELSE message
        next == IF fresh THEN uuid + 1 ELSE uuid
        wire == s.lmSession.messages
        \* lastMessage ? lastMessage.id : undefined (a hole reads undefined)
        parentMessageId ==
            IF Len(wire) > 0 /\ ~IsHole(wire[Len(wire)])
            THEN wire[Len(wire)].id
            ELSE NoId
        lmMessage ==
            [convertChatMessageToLMMessage(s, msg) EXCEPT
                !.parentMessageIds =
                    IF parentMessageId # NoId THEN <<parentMessageId>> ELSE <<>>]
        s1 == [s EXCEPT !.messages = Append(@, msg),
                        !.lmSession.messages = Append(@, lmMessage)]
    IN  IF msg.role = "user"
        THEN [s |-> [addFillerAssistantMessage(s1, msg.id, next) EXCEPT
                        !.lmSession.userMessageId = msg.id,
                        !.lmSession.modelAMessageId = next],
              uuid |-> next + 1]
        ELSE [s |-> s1, uuid |-> next]

RECURSIVE SendAll(_, _, _)
\* for (const msg of messagesOverride) await this.sendMessage(session, msg)
SendAll(s, msgs, uuid) ==
    IF msgs = <<>> THEN [s |-> s, uuid |-> uuid]
    ELSE LET r == sendMessage(s, Head(msgs), uuid)
         IN  SendAll(r.s, Tail(msgs), r.uuid)

\* shuffleSession with the reset of doesSessionExist forgotten
shuffleSession_KeepsExists(s, uuid) ==
    [s EXCEPT !.sessionId = uuid, !.lmSession.id = uuid]

\* Chat.shuffleSession
shuffleSession(s, uuid) ==
    [s EXCEPT !.sessionId = uuid, !.lmSession.id = uuid,
              !.doesSessionExist = FALSE]

\* ------------------------------------------------------------------------
\* Array operations on the wire graph
\* ------------------------------------------------------------------------

RECURSIVE FindFrom(_, _, _, _)
\* messages.find(msg => [msg.id &&] msg.id === target): found is the index
\* (0: undefined); raised where the callback reads the id of a hole
FindFrom(msgs, target, guarded, i) ==
    IF i > Len(msgs) THEN [raised |-> FALSE, found |-> 0]
    ELSE IF IsHole(msgs[i]) THEN [raised |-> TRUE, found |-> 0]
    ELSE IF (guarded => msgs[i].id # NoId) /\ msgs[i].id = target
         THEN [raised |-> FALSE, found |-> i]
    ELSE FindFrom(msgs, target, guarded, i + 1)

Find(msgs, target, guarded) == FindFrom(msgs, target, guarded, 1)

\* the removal loop with a comparison that never matches
DeleteAssistant_None(msgs, assistantId) == msgs

\* for (const msgI in messages) if (lower(msg.id) == lower(assistantId))
\*    delete messages[msgI]
DeleteAssistant(msgs, assistantId) ==
    [i \in 1..Len(msgs) |->
        IF ~IsHole(msgs[i]) /\ ToLowerCase(msgs[i].id) = ToLowerCase(assistantId)
        THEN Hole
        ELSE msgs[i]]

\* ------------------------------------------------------------------------
\* Requests and responses
\* ------------------------------------------------------------------------

Url(endpoint, sessionId, messageId) ==
    [endpoint |-> endpoint, sessionId |-> sessionId, messageId |-> messageId]

\* RequestFor with the retry endpoint chosen only for a session that exists
RequestFor_RetryIfExists(s, retry) ==
    [url |-> IF ~s.doesSessionExist
             THEN Url("create-evaluation", NoId, NoId)
             ELSE IF retry
             THEN Url("retry-evaluation-session-message", s.sessionId,
                      s.lmSession.modelAMessageId)
             ELSE Url("post-to-evaluation", s.sessionId, NoId),
     method |-> IF retry THEN "PUT" ELSE "POST"]

\* the url and the method of the request of a turn
RequestFor(s, retry) ==
    [url |-> IF retry
             THEN Url("retry-evaluation-session-message", s.sessionId,
                      s.lmSession.modelAMessageId)
             ELSE IF ~s.doesSessionExist
             THEN Url("create-evaluation", NoId, NoId)
             ELSE Url("post-to-evaluation", s.sessionId, NoId),
     method |-> IF retry THEN "PUT" ELSE "POST"]

NoPayload ==
    [id |-> NoId, userMessageId |-> NoId, modelAMessageId |-> NoId,
     content |-> <<>>, experimental_attachments |-> <<>>, messages |-> <<>>]

\* runInferenceV2's payload; currentUserMsg is an index into the wire graph
\* (0: undefined)
PayloadV2(s, currentUserMsg) ==
    LET wire == s.lmSession.messages
    IN  [id |-> s.sessionId,
         userMessageId |-> s.lmSession.userMessageId,
         modelAMessageId |-> s.lmSession.modelAMessageId,
         content |-> IF currentUserMsg # 0 THEN wire[currentUserMsg].content
                     ELSE <<>>,
         experimental_attachments |->
             IF currentUserMsg # 0
             THEN wire[currentUserMsg].experimental_attachments
             ELSE <<>>,
         messages |-> <<>>]

\* JSON.stringify(session.lmSession), taken when the request is made
PayloadLegacy(s) ==
    [id |-> s.lmSession.id,
     userMessageId |-> s.lmSession.userMessageId,
     modelAMessageId |-> s.lmSession.modelAMessageId,
     content |-> <<>>, experimental_attachments |-> <<>>,
     messages |-> s.lmSession.messages]

\* the state of one turn generator
\*   pc: "idle"; "sent" (awaiting makeAuthedRequest); "auth" (awaiting
\*       updateArenaAuth); "read" (awaiting reader.read()); "lines" (in the
\*       line loop); "done" (returned); "raised" (ended by an exception)
\*   ph: index of assistantMessageForTurn in the wire graph, 0 if undefined
\*   start, pre, status, modality, errorText, authCalls, auth, cause
\*       (the exception that ended the generator), split (a chunk ended
\*       inside a record), sentWire (the wire graph when the request was
\*       made): history the properties read
IdleTurn ==
    [pc |-> "idle", form |-> "v2", retry |-> FALSE, request |-> [url |-> Url("", NoId, NoId), method |-> ""],
     payload |-> NoPayload, ph |-> 0, body |-> <<>>, pos |-> 0,
     buffer |-> <<>>, lead |-> FALSE, events |-> <<>>, start |-> Hole,
     pre |-> [taken |-> FALSE, wire |-> <<>>, display |-> <<>>,
              assistantId |-> NoId],
     status |-> 0, modality |-> "", errorText |-> <<>>, authCalls |-> 0,
     auth |-> "", cause |-> "", split |-> FALSE, sentWire |-> <<>>]

NoOverride == [given |-> FALSE, msgs |-> <<>>]

\* messagesOverride: null, or the history to rebuild the session from
Overrides ==
    {NoOverride, [given |-> TRUE, msgs |-> <<ChatMessage("user", 1)>>]}

\* runInference / runInferenceV2 up to the call of makeAuthedRequest
BeginTurn(s0, form, override, retry, uuid0) ==
    LET o == IF override.given
             THEN SendAll([s0 EXCEPT !.messages = <<>>,
                                     !.lmSession.messages = <<>>],
                          override.msgs, uuid0)
             ELSE [s |-> s0, uuid |-> uuid0]
        s == o.s
        currentUserMsg ==
            Find(s.lmSession.messages, s.lmSession.userMessageId, FALSE)
        assistantId == s.lmSession.modelAMessageId
        removed == [s EXCEPT !.lmSession.messages =
                                 DeleteAssistant(@, assistantId)]
        \* the legacy payload is serialised after the removal
        payload == IF form = "v2" THEN PayloadV2(s, currentUserMsg.found)
                   ELSE PayloadLegacy(IF retry THEN removed ELSE s)
        t == [IdleTurn EXCEPT !.form = form, !.retry = retry]
    IN  IF form = "v2" /\ currentUserMsg.raised
        THEN [s |-> s, uuid |-> o.uuid,
              t |-> [t EXCEPT !.pc = "raised", !.cause = "TypeError"]]
        ELSE [s |-> IF retry THEN removed ELSE s,
              uuid |-> o.uuid,
              t |-> [t EXCEPT
                       !.pc = "sent",
                       !.request = RequestFor(s, retry),
                       !.payload = payload,
                       !.sentWire = IF retry THEN removed.lmSession.messages
                                    ELSE s.lmSession.messages,
                       !.pre = IF retry
                               THEN [taken |-> TRUE,
                                     wire |-> s.lmSession.messages,
                                     display |-> s.messages,
                                     assistantId |-> assistantId]
                               ELSE @]]

\* ------------------------------------------------------------------------
\* Texts the turn generators yield
\* ------------------------------------------------------------------------

TosNotice ==
    <<"E", "r", "r", "o", "r", ":", " ", "P", "r", "o", "m", "p", "t", " ",
      "v", "i", "o", "l", "a", "t", "e", "s", " ", "[", "L", "M", "A", "r",
      "e", "n", "a", " ", "T", "o", "S", "]", "(", "h", "t", "t", "p", "s",
      ":", "/", "/", "l", "m", "a", "r", "e", "n", "a", ".", "a", "i", "/",
      "t", "e", "r", "m", "s", "-", "o", "f", "-", "u", "s", "e", ")">>

RetryNotice ==
    <<"A", "n", "o", "n", "y", "m", "o", "u", "s", " ", "i", "m", "a", "g",
      "e", " ", "r", "a", "t", "e", "l", "i", "m", "i", "t", " ", "r", "e",
      "a", "c", "h", "e", "d", ",", " ", "g", "o", "t", " ", "n", "e", "w",
      " ", "s", "e", "s", "s", "i", "o", "n", ".", " ", "T", "r", "y", " ",
      "a", "g", "a", "i", "n", ".">>

RefreshFailedNotice ==
    <<"A", "n", "o", "n", "y", "m", "o", "u", "s", " ", "i", "m", "a", "g",
      "e", " ", "r", "a", "t", "e", "l", "i", "m", "i", "t", " ", "r", "e",
      "a", "c", "h", "e", "d", ",", " ", "b", "u", "t", " ", "c", "o", "u",
      "l", "d", " ", "n", "o", "t", " ", "r", "e", "f", "r", "e", "s", "h",
      " ", "t", "o", "k", "e", "n", ".">>

ErrorPrefix == <<"E", "r", "r", "o", "r", ":", " ">>

\* '{"error":'
ErrorBodyStart == <<"{", QT, "e", "r", "r", "o", "r", QT, ":">>

Err == JStr(<<"e", "r", "r">>)

Retry == JStr(<<"r", "e", "t", "r", "y">>)

TosEvents == <<Event(Code("c", "0"), JStr(TosNotice)), Event(Code("a", "d"), Err)>>

RetryEvents ==
    <<Event(Code("a", "0"), JStr(RetryNotice)), Event(Code("a", "d"), Retry)>>

RefreshFailedEvents ==
    <<Event(Code("a", "0"), JStr(RefreshFailedNotice)), Event(Code("a", "d"), Err)>>

ErrorBodyEvents(jBody) ==
    <<Event(Code("a", "0"), JStr(ErrorPrefix \o TemplateString(Get(jBody, <<"e", "r", "r", "o", "r">>)))),
      Event(Code("a", "d"), Err)>>

\* ------------------------------------------------------------------------
\* The response arrives
\* ------------------------------------------------------------------------

\* response.ok
Ok(status) == status >= 200 /\ status <= 299

\* the 422 branch: the legacy form parses the body first (SyntaxError on a
\* body that is not JSON), the revised form does not
Rejected422(t, errorText) ==
    IF t.form = "legacy" /\ ~JSONParse(errorText).ok
    THEN [t EXCEPT !.pc = "raised", !.cause = "SyntaxError"]
    ELSE [t EXCEPT !.pc = "done", !.events = TosEvents]

\* the 429 branch
Rejected429(t, modality) ==
    IF modality = "image"
    THEN [t EXCEPT !.pc = "auth", !.authCalls = @ + 1]
    ELSE [t EXCEPT !.pc = "done"]

\* RejectedOther with an unrecognised error body raising
RejectedOther_Raises(t, errorText) ==
    IF /\ Len(errorText) >= Len(ErrorBodyStart)
       /\ SubSeq(errorText, 1, Len(ErrorBodyStart)) = ErrorBodyStart
    THEN LET jBody == JSONParse(errorText)
         IN  IF jBody.ok
             THEN [t EXCEPT !.pc = "done", !.events = ErrorBodyEvents(jBody.v)]
             ELSE [t EXCEPT !.pc = "raised", !.cause = "SyntaxError"]
    ELSE [t EXCEPT !.pc = "raised", !.cause = "Error"]

\* the branch of every other non-success status
RejectedOther(t, errorText) ==
    IF /\ Len(errorText) >= Len(ErrorBodyStart)
       /\ SubSeq(errorText, 1, Len(ErrorBodyStart)) = ErrorBodyStart
    THEN LET jBody == JSONParse(errorText)
         IN  IF jBody.ok
             THEN [t EXCEPT !.pc = "done", !.events = ErrorBodyEvents(jBody.v)]
             ELSE [t EXCEPT !.pc = "raised", !.cause = "SyntaxError"]
    ELSE [t EXCEPT !.pc = "done"]

\* if (!response.ok) { ... return; }
Rejected(t, status, modality, errorText) ==
    IF status = 422 THEN Rejected422(t, errorText)
    ELSE IF status = 429 THEN Rejected429(t, modality)
    ELSE RejectedOther(t, errorText)

\* the placeholder runInferenceV2 creates when the wire graph has none
LazyPlaceholder(id) ==
    [id |-> id, role |-> "assistant", content |-> <<>>,
     experimental_attachments |-> <<>>, parentMessageIds |-> <<>>,
     status |-> "pending", evaluationSessionId |-> NoId]

\* the path of a success response up to the read loop.  The legacy payload
\* is session.lmSession itself, so it reads the ids the session has now; the
\* revised payload holds the ids it was built with.
Accepted(s, t, body) ==
    LET wire == s.lmSession.messages
        target == IF t.form = "v2" THEN t.payload.modelAMessageId
                  ELSE s.lmSession.modelAMessageId
        f == Find(wire, target, TRUE)
        lazily == t.form = "v2" /\ f.found = 0
        msgs == IF lazily THEN Append(wire, LazyPlaceholder(target)) ELSE wire
        ph == IF lazily THEN Len(msgs) ELSE f.found
        s1 == [s EXCEPT !.doesSessionExist = TRUE]
    IN  IF f.raised
        THEN [s |-> s1, t |-> [t EXCEPT !.pc = "raised", !.cause = "TypeError"]]
        ELSE [s |-> [s1 EXCEPT !.lmSession.messages = msgs],
              t |-> [t EXCEPT !.pc = "read", !.ph = ph, !.body = body,
                              !.start = IF ph # 0 THEN msgs[ph] ELSE Hole]]

\* updateArenaAuth's return value: an array [updated, clearance, text]
UpdateArenaAuthResult(outcome) ==
    IF outcome = "updated"
    THEN JArr(<<JBool(<<"t", "r", "u", "e">>), JStr(<<"c", "f">>), JStr(<<>>)>>)
    ELSE IF outcome = "noCookie"
    THEN JArr(<<JBool(<<"f", "a", "l", "s", "e">>), JNull, JStr(<<>>)>>)
    ELSE JArr(<<JBool(<<"f", "a", "l", "s", "e">>), JStr(<<"c", "f">>), JStr(<<>>)>>)

\* AfterAuth with the retry notice never given
AfterAuth_NeverRetry(t, couldUpdateAuth) ==
    [t EXCEPT !.pc = "done", !.events = RefreshFailedEvents]

\* if (couldUpdateAuth) { retry notice } else { refresh-failed notice }
AfterAuth(t, couldUpdateAuth) ==
    [t EXCEPT !.pc = "done",
              !.events = IF Truthy(couldUpdateAuth) THEN RetryEvents
                         ELSE RefreshFailedEvents]

\* ------------------------------------------------------------------------
\* Response bodies
\* ------------------------------------------------------------------------

\* a0:"hi"
RecText == <<"a", "0", ":", QT, "h", "i", QT>>

\* ad:"done"
RecEnd == <<"a", "d", ":", QT, "d", "o", "n", "e", QT>>

\* ad:"err"
RecErr == <<"a", "d", ":", QT, "e", "r", "r", QT>>

\* a2:[{"type":"image","image":"u"}]
RecImage ==
    <<"a", "2", ":", "[", "{", QT, "t", "y", "p", "e", QT, ":", QT, "i", "m",
      "a", "g", "e", QT, ",", QT, "i", "m", "a", "g", "e", QT, ":", QT, "u",
      QT, "}", "]">>

\* a0:"h  (the payload is not JSON)
RecBad == <<"a", "0", ":", QT, "h">>

\* the records of the bodies; beside the ones above
\*   a3:1
\*   a0:  (shorter than 4 characters)
\*   a0:"p" between a blank and a carriage return
\*   a0:"e-acute", the character in its two bytes
Records ==
    {RecText, RecEnd, RecErr, RecImage, RecBad,
     <<"a", "3", ":", "1">>,
     <<"a", "0", ":">>,
     <<" ", "a", "0", ":", QT, "p", QT, "\r">>,
     <<"a", "0", ":", QT, LeadByte, ContByte, QT>>}

RECURSIVE BodiesOf(_)
\* the bodies of at most n records, each but possibly the last ended by a
\* newline
BodiesOf(n) ==
    IF n = 0 THEN {<<>>}
    ELSE {<<>>} \cup Records
            \cup {r \o <<NL>> \o b : r \in Records, b \in BodiesOf(n - 1)}

\* a2:[{"type":"image"},null]
RecImageNull ==
    SubSeq(RecImage, 1, 19) \o <<"}", ",", "n", "u", "l", "l", "]">>

\* c0:"x"
RecC0 == <<"c", "0", ":", QT, "x", QT>>

\* records beyond Records, each alone, before a text record and behind one
\*   c0:"x"
\*   a0:7   (a payload that is not a string)
\*   a::7   (a colon within the first 2 characters)
\*   e3:{}  (a code the decoder does not know)
MoreBodies ==
    UNION {{r \o t, r \o <<NL>> \o RecText \o t, RecText \o <<NL>> \o r \o t} :
              r \in {RecC0, <<"a", "0", ":", "7">>, <<"a", ":", ":", "7">>,
                     <<"e", "3", ":", "{", "}">>, <<"a", "2", ":", "7">>,
                     RecImageNull},
              t \in {<<>>, <<NL>>}}

\* the bodies of success responses in the turn specification
TurnBodies == {RecErr \o <<NL>>, RecText}

\* {"error":"m"}, {"error":  (cut short) and  no
ErrorBodies ==
    {ErrorBodyStart \o <<QT, "m", QT, "}">>, ErrorBodyStart, <<"n", "o">>}

Statuses == {200, 422, 429, 500}

\* ------------------------------------------------------------------------
\* The stream bridge (LMArena.makeAuthedRequest)
\* ------------------------------------------------------------------------

\* the makeAuthedRequest calls of a behaviour, each with its token reqId
MaxRequests == 2

\* the chunks relayed in a behaviour, over all its requests
MaxChunks == 2

ReqIds == 1..MaxRequests

\* the page: _bridgeExposed, _exposingBridge (a promise is stored),
\* _streamHandlers (the tokens with a handler); installed: the browser
\* context has window.nodeStreamBridge; exposeCalls: history; exposeResult:
\* how the promise of the installation settled
NewPage ==
    [bridgeExposed |-> FALSE, exposingBridge |-> FALSE, streamHandlers |-> {},
     installed |-> FALSE, exposeCalls |-> 0, exposeResult |-> ""]

\* one call of makeAuthedRequest
\*   pc: "idle"; "exposing" (awaiting page._exposingBridge); "evaluate"
\*       (awaiting page.evaluate); "returned"; "raised" (the executor threw)
\*   promise: the promise makeAuthedRequest returned
\*   browser: "idle"; "fetch" (awaiting fetch); "body" (meta relayed,
\*       reading the body); "over"
\*   stream, queue: the ReadableStream of the response and its chunks
\*   reader: "none"; "locked" (a turn reads the body); "released"
\*   sent, relayed, lost, waited, cancelled, abandoned: history
NewRequest ==
    [pc |-> "idle", promise |-> "pending", browser |-> "idle",
     stream |-> "readable", queue |-> <<>>, reader |-> "none", sent |-> 0,
     relayed |-> {}, lost |-> 0, waited |-> FALSE, cancelled |-> FALSE,
     abandoned |-> FALSE]

\* page.evaluate(...) is started
Evaluate(q) == [q EXCEPT !.pc = "evaluate", !.browser = "fetch"]

\* Called with the pending-install marker ignored
Called_Unmarked(p, q, r) ==
    LET p1 == [p EXCEPT !.streamHandlers = @ \cup {r}]
    IN  IF ~p.bridgeExposed
        THEN [p |-> [p1 EXCEPT !.exposingBridge = TRUE, !.exposeCalls = @ + 1],
              q |-> [q EXCEPT !.pc = "exposing", !.waited = TRUE]]
        ELSE [p |-> p1, q |-> Evaluate(q)]

\* the executor up to its first await: the handler is registered, the
\* relay function is installed by the first call and awaited by all
Called(p, q, r) ==
    LET p1 == [p EXCEPT !.streamHandlers = @ \cup {r}]
    IN  IF ~p.bridgeExposed
        THEN [p |-> IF ~p.exposingBridge
                    THEN [p1 EXCEPT !.exposingBridge = TRUE,
                                    !.exposeCalls = @ + 1]
                    ELSE p1,
              q |-> [q EXCEPT !.pc = "exposing", !.waited = TRUE]]
        ELSE [p |-> p1, q |-> Evaluate(q)]

\* the .finally of the installation; page.exposeFunction has installed the
\* function ("ok"), found it installed already ("benign") or failed
\* otherwise ("fatal")
Exposed(p, result) ==
    [p EXCEPT !.bridgeExposed = TRUE, !.exposingBridge = FALSE,
              !.exposeResult = IF result = "fatal" THEN "rejected"
                               ELSE "fulfilled",
              !.installed = result \in {"ok", "benign"}]

\* after `await page._exposingBridge`: the promise is rejected with the
\* error the .catch re-threw, and the async executor ends by it
Awaited(p, q) ==
    IF p.exposeResult = "rejected" THEN [q EXCEPT !.pc = "raised"]
    ELSE Evaluate(q)

\* Handler with the response resolved only when end arrives
Handler_ResolvesAtEnd(p, q, r, type) ==
    CASE type = "meta" -> [p |-> p, raised |-> FALSE, q |-> q]
      [] type = "chunk" ->
            IF q.stream # "readable" THEN [p |-> p, q |-> q, raised |-> TRUE]
            ELSE [p |-> p, raised |-> FALSE,
                  q |-> [q EXCEPT !.queue = Append(@, q.sent + 1)]]
      [] type = "end" ->
            IF q.stream # "readable" THEN [p |-> p, q |-> q, raised |-> TRUE]
            ELSE [p |-> [p EXCEPT !.streamHandlers = @ \ {r}], raised |-> FALSE,
                  q |-> [q EXCEPT !.stream = "closed",
                                  !.promise = IF @ = "pending" THEN "resolved"
                                              ELSE @]]
      [] OTHER ->
            [p |-> [p EXCEPT !.streamHandlers = @ \ {r}], raised |-> FALSE,
             q |-> [q EXCEPT !.stream = IF @ = "readable" THEN "errored" ELSE @]]

\* the handler of the token r on a message; raised where
\* controllerRef.enqueue or controllerRef.close throws because the stream
\* is not readable any more
Handler(p, q, r, type) ==
    CASE type = "meta" ->
            [p |-> p, raised |-> FALSE,
             q |-> [q EXCEPT !.promise = IF @ = "pending" THEN "resolved" ELSE @]]
      [] type = "chunk" ->
            IF q.stream # "readable" THEN [p |-> p, q |-> q, raised |-> TRUE]
            ELSE [p |-> p, raised |-> FALSE,
                  q |-> [q EXCEPT !.queue = Append(@, q.sent + 1)]]
      [] type = "end" ->
            IF q.stream # "readable" THEN [p |-> p, q |-> q, raised |-> TRUE]
            ELSE [p |-> [p EXCEPT !.streamHandlers = @ \ {r}], raised |-> FALSE,
                  q |-> [q EXCEPT !.stream = "closed"]]
      [] OTHER ->
            [p |-> [p EXCEPT !.streamHandlers = @ \ {r}], raised |-> FALSE,
             q |-> [q EXCEPT !.stream = IF @ = "readable" THEN "errored" ELSE @]]

\* nodeStreamBridge(reqId, payload) on the host
NodeStreamBridge(p, q, r, type) ==
    IF r \in p.streamHandlers THEN Handler(p, q, r, type)
    ELSE [p |-> p, q |-> [q EXCEPT !.lost = @ + 1], raised |-> FALSE]

\* the browser side relays a message: `await window.nodeStreamBridge(...)`
\* in the try block, and an error message from the catch block when that
\* throws
Relayed(p, q, r, type) ==
    LET a == NodeStreamBridge(p, [q EXCEPT !.relayed = @ \cup {type}], r, type)
        b == NodeStreamBridge(a.p, [a.q EXCEPT !.relayed = @ \cup {"error"}],
                              r, "error")
    IN  IF a.raised THEN [p |-> b.p, q |-> b.q, caught |-> TRUE]
        ELSE [p |-> a.p, q |-> a.q, caught |-> FALSE]

\* the browser side is over and page.evaluate resolves
Over(q) == [q EXCEPT !.browser = "over", !.pc = "returned"]

\* ReadableStream cancel(): the stream is closed and its queue dropped, then
\* the cancel callback of the underlying source runs with the source as
\* `this`; its first statement reads this.fetchLogger.debug, a TypeError,
\* so its second statement (the delete of the handler) is not run
Cancelled(p, q, r) ==
    [p |-> p,
     q |-> [q EXCEPT !.stream = "closed", !.queue = <<>>, !.cancelled = TRUE]]

\* ------------------------------------------------------------------------
\* sendMessage by its awaits (Chat.sendMessage generators run concurrently)
\* ------------------------------------------------------------------------

\* the Chat.sendMessage generators started on the session
MaxChats == 2

ChatIds == 1..MaxChats

\* one Chat.sendMessage generator
\*   pc: "new"; "converting" (sendMessage awaits
\*       convertChatMessageToLMMessage); "filling" (it awaits
\*       addFillerAssistantMessage); "appended" (Chat.sendMessage awaits
\*       sendMessage); "sent" (runInferenceV2 awaits makeAuthedRequest);
\*       "done"; "raised"
\*   message, parentMessageId, assistantMessageId: sendMessage's locals
\*   att, step: where the conversion stands in the specification that
\*       follows uploadAttachmentToR2 await by await: the attachment the
\*       loop is at, and the await the upload is at (0: no upload runs)
\*   t: the turn of runInferenceV2
NewChat ==
    [pc |-> "new", message |-> ChatMessage("user", NoId),
     parentMessageId |-> NoId, assistantMessageId |-> NoId, t |-> IdleTurn,
     att |-> 1, step |-> 0]

\* sendMessage up to `await this.convertChatMessageToLMMessage(...)`
SendBegun(s, c, message, uuid0) ==
    LET wire == s.lmSession.messages
    IN  [c EXCEPT !.pc = "converting",
                  !.message = IF message.id = NoId
                              THEN [message EXCEPT !.id = uuid0]
                              ELSE message,
                  !.parentMessageId =
                      IF Len(wire) > 0 /\ ~IsHole(wire[Len(wire)])
                      THEN wire[Len(wire)].id
                      ELSE NoId]

\* from there up to `await this.addFillerAssistantMessage(...)`, whose body
\* has run
SendPushed(s, c, uuid0) ==
    LET lmMessage ==
            [convertChatMessageToLMMessage(s, c.message) EXCEPT
                !.parentMessageIds = IF c.parentMessageId # NoId
                                     THEN <<c.parentMessageId>>
                                     ELSE <<>>]
        s1 == [s EXCEPT !.messages = Append(@, c.message),
                        !.lmSession.messages = Append(@, lmMessage)]
    IN  IF c.message.role = "user"
        THEN [s |-> addFillerAssistantMessage(s1, c.message.id, uuid0),
              c |-> [c EXCEPT !.pc = "filling", !.assistantMessageId = uuid0]]
        ELSE [s |-> s1, c |-> [c EXCEPT !.pc = "appended"]]

\* from there to the end of sendMessage
SendDone(s, c) ==
    [s EXCEPT !.lmSession.userMessageId = c.message.id,
              !.lmSession.modelAMessageId = c.assistantMessageId]

\* ------------------------------------------------------------------------
\* Auth refresh and the record decoder: initial values
\* ------------------------------------------------------------------------

\* the number of sessions whose turns run at the same time
MaxSessions == 2

\* the calls of action(key) in a behaviour
MaxLookups == 3

\* the keys action is called with; the first two are those of KEY_DK_MAP
ActionKeys == {"ATTACHMENT_URL_INIT", "ATTACHMENT_FETCH_URL", "OTHER"}

\* KEY_DK_MAP[key], "" where it is undefined
KEY_DK_MAP(key) ==
    CASE key = "ATTACHMENT_URL_INIT" -> "generateUploadUrl"
      [] key = "ATTACHMENT_FETCH_URL" -> "getSignedUrl"
      [] OTHER -> ""

\* root[1] of the first match of the regex for dk in the text of the chunk
\* at url, "" when the text has no match.  The chunks are the site's: u1
\* holds no server reference, u2 and u3 are the chunks of two builds of the
\* site and hold different identifiers for generateUploadUrl.
FirstMatch(url, dk) ==
    CASE url = "u2" /\ dk = "generateUploadUrl" -> "7f"
      [] url = "u3" /\ dk = "generateUploadUrl" -> "9c"
      [] OTHER -> ""

\* the script resources of the page after a load of the site
PageLoads == {<<"u1">>, <<"u1", "u2">>, <<"u1", "u3">>}

\* one call of action(key)
\*   pc: "new"; "listing" (awaiting page.evaluate); "fetching" (awaiting
\*       the request for Head(urls) and its text); "returned"; "raised"
\*   urls: the chunk URLs still to scan; results; result: the value returned
\*   requests: the transport requests the call has issued (history)
NewLookup ==
    [pc |-> "new", key |-> "", urls |-> <<>>, results |-> <<>>,
     result |-> "", requests |-> 0]

\* most concurrent calls of getLMArena
MaxCallers == 4

\* the module variable lmArenaInstance and the init of the instance
\*   created: lmArenaInstance is not null
\*   models: "null" as the constructor leaves it, "map" once init has set it
\*   init: "none"; "browser", "cookies", "models" (init awaits
\*       browser.init, updateCookies, getModels); "done"; "raised"
\*   inits: the calls of init (history)
NoInstance ==
    [created |-> FALSE, models |-> "null", init |-> "none", inits |-> 0]

\* one call of getLMArena
\*   pc: "new"; "awaiting" (it awaits init); "returned"; "raised"
\*   got: the models of the instance when the call returned it (history)
NewCaller == [pc |-> "new", got |-> ""]

\* the browser holds both cookies; every session has a turn that awaits
\* the response of its inference request; the action and script caches are
\* empty and the page has loaded the chunks u1 and u2
NewArena ==
    [authCookie |-> TRUE,
     provCookie |-> TRUE,
     auth |-> [i \in 1..MaxSessions |->
                 [pc |-> "inference", outcome |-> "none", events |-> <<>>]],
     loaded |-> <<"u1", "u2">>,
     scriptCache |-> {},
     actionCache |-> [key \in ActionKeys |-> ""],
     lookups |-> [c \in 1..MaxLookups |-> NewLookup],
     instance |-> NoInstance,
     callers |-> [c \in 1..MaxCallers |-> NewCaller]]

\* attemptFetchAction has returned its results to action
Settle(a, c) ==
    LET l == a.lookups[c]
    IN  IF l.results # <<>>
        THEN [a EXCEPT !.actionCache[l.key] = l.results[1],
                       !.lookups[c].pc = "returned",
                       !.lookups[c].result = l.results[1]]
        ELSE [a EXCEPT !.lookups[c].pc = "raised"]

\* results after the text of the chunk at url has been matched
Matched(l, url) ==
    LET id == FirstMatch(url, KEY_DK_MAP(l.key))
    IN  [l EXCEPT !.urls = Tail(@),
                  !.results = IF id # "" THEN Append(@, id) ELSE @]

RECURSIVE Scan(_, _)
\* the loop `for (const url of staticChunkUrls)` of the call c up to its
\* next await: cached texts are matched at once, the first text that is not
\* cached is requested; behind the last URL action goes on
Scan(a, c) ==
    LET l == a.lookups[c]
    IN  IF l.urls = <<>> THEN Settle(a, c)
        ELSE IF Head(l.urls) \in a.scriptCache
        THEN Scan([a EXCEPT !.lookups[c] = Matched(l, Head(l.urls))], c)
        ELSE [a EXCEPT !.lookups[c].pc = "fetching",
                       !.lookups[c].requests = @ + 1]

\* parseAndDereference before it is called
NewDecoder ==
    [pc |-> "input", text |-> <<>>, lines |-> <<>>, dataMap |-> <<>>,
     result |-> JUndefined, error |-> "", errorId |-> <<>>]

\* the number of lines of a response text
MaxLines == 3

\* the lines the response texts are made of
DataLines ==
    {<<>>,
     \* 0:"p"
     <<"0", ":", QT, "p", QT>>,
     \* 0:"$@1"
     <<"0", ":", QT, "$", "@", "1", QT>>,
     \* 0:{"a":"$@1","b":7}
     <<"0", ":", "{", QT, "a", QT, ":", QT, "$", "@", "1", QT, ",",
       QT, "b", QT, ":", "7", "}">>,
     \* 0:["$@2","$1"]
     <<"0", ":", "[", QT, "$", "@", "2", QT, ",", QT, "$", "1", QT, "]">>,
     \* 0:{"__proto__":"$@1"}
     <<"0", ":", "{", QT, "_", "_", "p", "r", "o", "t", "o", "_", "_", QT,
       ":", QT, "$", "@", "1", QT, "}">>,
     \* 1:"h"
     <<"1", ":", QT, "h", QT>>,
     \* 1:"$@2"
     <<"1", ":", QT, "$", "@", "2", QT>>,
     \* 2:["z"]
     <<"2", ":", "[", QT, "z", QT, "]">>,
     \* 1:I[x]  (a control line)
     <<"1", ":", "I", "[", "x", "]">>,
     \* 1:"h  (the string is not closed)
     <<"1", ":", QT, "h">>,
     \* xx  (no colon)
     <<"x", "x">>}

RECURSIVE TextsOf(_)
\* the texts of at most n lines
TextsOf(n) ==
    IF n = 1 THEN DataLines
    ELSE TextsOf(n - 1)
           \cup {t \o <<NL>> \o l : t \in TextsOf(n - 1), l \in DataLines}

\* the response texts parseAndDereference is called with
ResponseTexts == TextsOf(MaxLines)

RECURSIVE Split(_)
\* s.split("\n")
Split(s) ==
    LET i == IndexOf(s, NL)
    IN  IF i = -1 THEN <<s>>
        ELSE <<Substring(s, 0, i)>> \o Split(SubstringFrom(s, i + 1))

\* dataMap.has(id): JSON.parse never gives undefined
Has(dataMap, id) == GetFrom(dataMap, id, Len(dataMap)) # JUndefined

\* one pass of the for loop with a JSON failure skipped like a control line
StoreLine_Skipped(d, line) ==
    LET separatorIndex == IndexOf(line, ":")
        id == Substring(line, 0, separatorIndex)
        content == SubstringFrom(line, separatorIndex + 1)
        parsed == JSONParse(content)
    IN  IF line = <<>> \/ separatorIndex = -1 THEN d
        ELSE IF content = <<>> \/ content[1] \notin {"{", "[", QT} THEN d
        ELSE IF parsed.ok
        THEN [d EXCEPT !.dataMap = Append(@, [k |-> id, v |-> parsed.v])]
        ELSE d

\* one pass of `for (const line of lines)`
StoreLine(d, line) ==
    LET separatorIndex == IndexOf(line, ":")
        id == Substring(line, 0, separatorIndex)
        content == SubstringFrom(line, separatorIndex + 1)
        parsed == JSONParse(content)
    IN  IF line = <<>> \/ separatorIndex = -1 THEN d
        ELSE IF content = <<>> \/ content[1] \notin {"{", "[", QT} THEN d
        ELSE IF parsed.ok
        THEN [d EXCEPT !.dataMap = Append(@, [k |-> id, v |-> parsed.v])]
        ELSE [d EXCEPT !.pc = "raised", !.error = "parse", !.errorId = id]

\* value.match(/^\$@(\d+)$/) of a string
IsRef(value) ==
    /\ value.t = "string"
    /\ Len(value.v) >= 3
    /\ value.v[1] = "$"
    /\ value.v[2] = "@"
    /\ \A i \in 3..Len(value.v) : value.v[i] \in Digits

RECURSIVE dereference(_, _)
\* dereference(value) over dataMap.  In the object branch newObj[key] = ...
\* with the key __proto__ runs the prototype setter of the fresh object and
\* creates no property of its own.
dereference(value, dataMap) ==
    IF IsRef(value)
    THEN LET refId == SubSeq(value.v, 3, Len(value.v))
         IN  IF Has(dataMap, refId)
             THEN dereference(GetFrom(dataMap, refId, Len(dataMap)), dataMap)
             ELSE JNull
    ELSE IF value.t = "array"
    THEN JArr([i \in 1..Len(value.v) |-> dereference(value.v[i], dataMap)])
    ELSE IF value.t = "object"
    THEN LET own == SelectSeq(value.v,
                        LAMBDA m : m.k # <<"_", "_", "p", "r", "o", "t", "o",
                                           "_", "_">>)
         IN  JObj([i \in 1..Len(own) |->
                     [k |-> own[i].k, v |-> dereference(own[i].v, dataMap)]])
    ELSE value

\* ------------------------------------------------------------------------
\* State
\* ------------------------------------------------------------------------

VARIABLES
    session,    \* the ChatSession object
    turn,       \* the turn generator of the session
    uuid,       \* the next identifier randomUUID returns
    calls,      \* the number of calls the caller has made
    okSince,    \* history: a turn request got a success response since the
                \* session was created or last shuffled
    page,       \* the browser page of the bridge
    reqs,       \* the makeAuthedRequest calls, by token
    chats,      \* the Chat.sendMessage generators running concurrently
    arena,      \* the browser's cookies and the updateArenaAuth calls
    decoder     \* one call of parseAndDereference

vars ==
    <<session, turn, uuid, calls, okSince, page, reqs, chats, arena, decoder>>

Init ==
    /\ session = createSession(FirstUuid)
    /\ turn = IdleTurn
    /\ uuid = FirstUuid + 1
    /\ calls = 0
    /\ okSince = FALSE
    /\ page = NewPage
    /\ reqs = [r \in ReqIds |-> NewRequest]
    /\ chats = [c \in ChatIds |-> NewChat]
    /\ arena = NewArena
    /\ decoder = NewDecoder

\* no generator is running
Free == turn.pc = "idle"

\* the generator has returned or raised
Ended == turn.pc \in {"done", "raised"}

\* the caller's for-await loop over an ended generator exits and drops it
TurnEnds ==
    /\ Ended
    /\ turn' = IdleTurn
    /\ UNCHANGED <<session, uuid, calls, okSince, page, reqs, chats, arena,
                   decoder>>

\* Chat.addMessage(message)
AddMessage(message) ==
    /\ Free
    /\ calls < MaxCalls
    /\ LET r == sendMessage(session, message, uuid)
       IN  /\ session' = r.s
           /\ uuid' = r.uuid
    /\ calls' = calls + 1
    /\ UNCHANGED <<turn, okSince, page, reqs, chats, arena, decoder>>

\* Chat.sendMessage(message, retry), up to the request of runInferenceV2
ChatSendMessage(message, retry) ==
    /\ Free
    /\ calls < MaxCalls
    /\ LET r == sendMessage(session, message, uuid)
           b == BeginTurn(r.s, "v2", NoOverride, retry, r.uuid)
       IN  /\ session' = b.s
           /\ uuid' = b.uuid
           /\ turn' = b.t
    /\ calls' = calls + 1
    /\ UNCHANGED <<okSince, page, reqs, chats, arena, decoder>>

\* runInference / runInferenceV2(session, messagesOverride, retry), up to
\* the request
RunInference(form, override, retry) ==
    /\ Free
    /\ calls < MaxCalls
    /\ LET b == BeginTurn(session, form, override, retry, uuid)
       IN  /\ session' = b.s
           /\ uuid' = b.uuid
           /\ turn' = b.t
    /\ calls' = calls + 1
    /\ UNCHANGED <<okSince, page, reqs, chats, arena, decoder>>

\* Chat.shuffleSession()
ShuffleSession ==
    /\ Free \/ turn.pc = "sent"
    /\ calls < MaxCalls
    /\ session' = shuffleSession(session, uuid)
    /\ uuid' = uuid + 1
    /\ calls' = calls + 1
    /\ okSince' = FALSE
    /\ UNCHANGED <<turn, page, reqs, chats, arena, decoder>>

\* makeAuthedRequest resolves with a success response
RespondOk(status, body) ==
    /\ turn.pc = "sent"
    /\ Ok(status)
    /\ LET a == Accepted(session, [turn EXCEPT !.status = status], body)
       IN  /\ session' = a.s
           /\ turn' = a.t
    /\ okSince' = TRUE
    /\ UNCHANGED <<uuid, calls, page, reqs, chats, arena, decoder>>

\* makeAuthedRequest resolves with a non-success response, whose text is read
RespondRejected(status, modality, errorText) ==
    /\ turn.pc = "sent"
    /\ ~Ok(status)
    /\ turn' = Rejected([turn EXCEPT
                             !.status = status,
                             !.modality = IF status = 429 THEN modality ELSE @,
                             !.errorText = errorText],
                        status, modality, errorText)
    /\ UNCHANGED <<session, uuid, calls, okSince, page, reqs, chats, arena,
                   decoder>>

\* updateArenaAuth returns
AuthReturns(outcome) ==
    /\ turn.pc = "auth"
    /\ turn' = AfterAuth([turn EXCEPT !.auth = outcome],
                         UpdateArenaAuthResult(outcome))
    /\ UNCHANGED <<session, uuid, calls, okSince, page, reqs, chats, arena,
                   decoder>>

\* updateArenaAuth raises (the browser context fails)
AuthRaises ==
    /\ turn.pc = "auth"
    /\ turn' = [turn EXCEPT !.pc = "raised", !.auth = "raised",
                             !.cause = "auth"]
    /\ UNCHANGED <<session, uuid, calls, okSince, page, reqs, chats, arena,
                   decoder>>

\* the loop's state, read from the turn and the wire graph
Loop ==
    LoopState(turn.buffer, turn.lead, turn.events, turn.ph # 0,
              IF turn.ph # 0 THEN session.lmSession.messages[turn.ph] ELSE Hole)

\* the loop's state written back
Stored(st, t) ==
    /\ turn' = [t EXCEPT !.buffer = st.buffer, !.lead = st.lead,
                         !.events = st.events,
                         !.pc = IF @ # "read" THEN @
                                ELSE IF HasBoundary(st) THEN "lines" ELSE "read"]
    /\ session' = IF turn.ph # 0
                  THEN [session EXCEPT !.lmSession.messages[turn.ph] = st.m]
                  ELSE session

\* reader.read() returns the next n bytes of the body
StreamRead(n) ==
    /\ turn.pc = "read"
    /\ n \in 1..(Len(turn.body) - turn.pos)
    /\ Stored(AppendChunk(Loop, SubSeq(turn.body, turn.pos + 1, turn.pos + n)),
              [turn EXCEPT !.pos = @ + n,
                           !.split = @ \/ (/\ turn.body[turn.pos + n] # NL
                                           /\ turn.pos + n < Len(turn.body))])
    /\ UNCHANGED <<uuid, calls, okSince, page, reqs, chats, arena, decoder>>

\* one iteration of the line loop
StreamLine ==
    /\ turn.pc = "lines"
    /\ Stored(LineStep(Loop), [turn EXCEPT !.pc = "read"])
    /\ UNCHANGED <<uuid, calls, okSince, page, reqs, chats, arena, decoder>>

\* reader.read() returns done
StreamDone ==
    /\ turn.pc = "read"
    /\ turn.pos = Len(turn.body)
    /\ Stored(Leftover(Loop), [turn EXCEPT !.pc = "done"])
    /\ UNCHANGED <<uuid, calls, okSince, page, reqs, chats, arena, decoder>>

\* reader.read() rejects: the bridge relayed an error
StreamError ==
    /\ turn.pc = "read"
    /\ turn' = [turn EXCEPT !.pc = "raised", !.cause = "transport"]
    /\ UNCHANGED <<session, uuid, calls, okSince, page, reqs, chats, arena,
                   decoder>>

Next ==
    \/ \E m \in Messages : AddMessage(m)
    \/ \E m \in Messages, retry \in BOOLEAN : ChatSendMessage(m, retry)
    \/ \E form \in {"legacy", "v2"}, o \in Overrides, retry \in BOOLEAN :
          RunInference(form, o, retry)
    \/ ShuffleSession
    \/ \E status \in Statuses, body \in TurnBodies : RespondOk(status, body)
    \/ \E status \in Statuses, modality \in {"", "image", "text"},
          text \in ErrorBodies :
          RespondRejected(status, modality, text)
    \/ \E outcome \in {"updated", "noCookie", "signUpFailed"} :
          AuthReturns(outcome)
    \/ AuthRaises
    \/ \E n \in 1..Len(turn.body) : StreamRead(n)
    \/ StreamLine
    \/ StreamDone
    \/ StreamError
    \/ TurnEnds

Spec == Init /\ [][Next]_vars

\* ------------------------------------------------------------------------
\* The decoder specification: one turn of a new session, from the arrival
\* of a success response on, for every body of BodiesOf(MaxRecords) and
\* of MoreBodies
\* ------------------------------------------------------------------------

\* the session and the turn when the response of the first turn arrives;
\* without a message sent before, the legacy form finds no placeholder and
\* the revised form creates one
StreamStart(form, withMessage, body) ==
    LET s0 == createSession(FirstUuid)
        r == IF withMessage
             THEN sendMessage(s0, ChatMessage("user", NoId), FirstUuid + 1)
             ELSE [s |-> s0, uuid |-> FirstUuid + 1]
        b == BeginTurn(r.s, form, NoOverride, FALSE, r.uuid)
        a == Accepted(b.s, [b.t EXCEPT !.status = 200], body)
    IN  [s |-> a.s, t |-> a.t, uuid |-> b.uuid]

\* the revised form decodes into a placeholder sendMessage made; the legacy
\* form into one, or into none
InitStream ==
    \E c \in {<<"v2", TRUE>>, <<"legacy", TRUE>>, <<"legacy", FALSE>>},
       body \in BodiesOf(MaxRecords) \cup MoreBodies :
        LET st == StreamStart(c[1], c[2], body)
        IN  /\ session = st.s
            /\ turn = st.t
            /\ uuid = st.uuid
            /\ calls = 1
            /\ okSince = TRUE
            /\ page = NewPage
            /\ reqs = [r \in ReqIds |-> NewRequest]
            /\ chats = [k \in ChatIds |-> NewChat]
            /\ arena = NewArena
            /\ decoder = NewDecoder

NextStream ==
    \/ \E n \in 1..Len(turn.body) : StreamRead(n)
    \/ StreamLine
    \/ StreamDone
    \/ StreamError

SpecStream == InitStream /\ [][NextStream]_vars

\* ------------------------------------------------------------------------
\* Properties of the session machine (Spec)
\* ------------------------------------------------------------------------

\* the wire graph and the display history of the session
Wire == session.lmSession.messages

\* the step is sendMessage completing for the user message m: called on
\* its own, or as the first half of Chat.sendMessage
UserSend(m) ==
    /\ m.role = "user"
    /\ AddMessage(m) \/ \E retry \in BOOLEAN : ChatSendMessage(m, retry)

\* what the wire graph holds once the step has appended: retry removes
\* nothing that the append made, so the appended pair is compared on the
\* state sendMessage returns
AfterSend(m) == sendMessage(session, m, uuid).s

\* C1: when sendMessage completes for a message with role "user", the wire
\* graph has gained exactly the user's wire message followed by exactly one
\* new assistant placeholder with empty content and status "pending" whose
\* parentMessageIds is exactly [the user message id]; modelAMessageId is
\* that placeholder's id and userMessageId is the user message's id.
C1_UserSendAppendsPair ==
    [][\A m \in Messages :
          UserSend(m) =>
              LET n == Len(Wire)
                  after == AfterSend(m).lmSession
                  w == after.messages
              IN  /\ Len(w) = n + 2
                  /\ SubSeq(w, 1, n) = Wire
                  /\ w[n + 1].role = "user"
                  /\ w[n + 1].id # NoId
                  /\ m.id # NoId => w[n + 1].id = m.id
                  /\ w[n + 1].content = m.content
                  /\ w[n + 2].role = "assistant"
                  /\ w[n + 2].content = <<>>
                  /\ w[n + 2].status = "pending"
                  /\ w[n + 2].parentMessageIds = <<w[n + 1].id>>
                  /\ \A i \in 1..(n + 1) :
                        IsHole(w[i]) \/ w[i].id # w[n + 2].id
                  /\ after.modelAMessageId = w[n + 2].id
                  /\ after.userMessageId = w[n + 1].id
                  /\ session'.lmSession.modelAMessageId = w[n + 2].id
                  /\ session'.lmSession.userMessageId = w[n + 1].id
                  /\ Len(Wire') = n + 2
                  /\ Wire'[n + 1] = w[n + 1]
                  /\ turn'.pc # "sent" \/ ~turn'.retry => Wire' = w]_vars

\* a user message and its placeholder appended behind the hole an earlier
\* retry left
C1_Witness ==
    LET n == Len(Wire)
    IN  /\ n >= 3
        /\ \E i \in 1..(n - 2) : IsHole(Wire[i])
        /\ ~IsHole(Wire[n]) /\ ~IsHole(Wire[n - 1])
        /\ Wire[n - 1].role = "user"
        /\ Wire[n].status = "pending"
        /\ Wire[n].parentMessageIds = <<Wire[n - 1].id>>
        /\ session.lmSession.modelAMessageId = Wire[n].id
        /\ session.lmSession.userMessageId = Wire[n - 1].id

\* every wire message that was pending when the request was made is still
\* pending
StillPending ==
    /\ Len(Wire) = Len(turn.sentWire)
    /\ \A i \in 1..Len(Wire) :
          (~IsHole(turn.sentWire[i]) /\ turn.sentWire[i].status = "pending")
              => (~IsHole(Wire[i]) /\ Wire[i].status = "pending")

\* C2: for any response with status 422, whatever its body text and for
\* either payload form, the turn yields exactly c0 with the ToS message and
\* then ad with data "err" and ends without raising; the placeholder is
\* still "pending" and the exists flag is not set by it.
C2_Tos422 ==
    (Ended /\ turn.status = 422) =>
        /\ turn.pc = "done"
        /\ turn.events = TosEvents
        /\ StillPending
        /\ session.doesSessionExist = okSince

\* C3: for a 429 response whose ratelimit-modality is "image", when
\* updateArenaAuth fails the turn yields exactly the a0 could-not-refresh
\* notice and then ad with data "err", never ad with data "retry".
C3_RefreshFailed ==
    (/\ Ended
     /\ turn.status = 429
     /\ turn.modality = "image"
     /\ turn.auth \in {"noCookie", "signUpFailed"}) =>
        /\ turn.events = RefreshFailedEvents
        /\ \A i \in 1..Len(turn.events) : turn.events[i] # Retry

\* the steps of a turn between its request and its end on a 429
ThrottledStep ==
    /\ turn.pc \in {"sent", "auth"}
    /\ turn'.pc \in {"auth", "done"}
    /\ turn'.status = 429

\* C4: for a 429 response whose ratelimit-modality is "image", when
\* updateArenaAuth succeeds the turn yields exactly an a0 notice and then
\* ad with data "retry" and ends; updateArenaAuth is invoked exactly once
\* for the turn and the exists flag is unchanged.
C4_RefreshedRetry ==
    /\ []((/\ turn.status = 429
           /\ turn.modality = "image"
           /\ turn.auth = "updated") =>
              /\ turn.pc = "done"
              /\ Len(turn.events) = 2
              /\ turn.events[1] = Event(Code("a", "0"), JStr(RetryNotice))
              /\ turn.events[2] = Event(Code("a", "d"), JStr(<<"r", "e", "t", "r", "y">>))
              /\ turn.authCalls = 1)
    /\ [][ThrottledStep =>
             session'.doesSessionExist = session.doesSessionExist]_vars

\* a turn on a session that exists ended by the retry notice
C4_Witness ==
    /\ turn.pc = "done"
    /\ turn.status = 429
    /\ turn.modality = "image"
    /\ turn.auth = "updated"
    /\ turn.events = RetryEvents
    /\ session.doesSessionExist

\* C5: in the retry step of a turn, after the stale placeholder has been
\* removed and before the request is sent, the wire graph holds no message
\* whose id is the assistant-placeholder id held before the removal, every
\* other wire message is unchanged, and the display history is unchanged.
C5_RetryRemoval ==
    (turn.pc = "sent" /\ turn.retry) =>
        /\ turn.pre.taken
        /\ \A i \in 1..Len(Wire) :
              IsHole(Wire[i]) \/ Wire[i].id # turn.pre.assistantId
        /\ Len(Wire) = Len(turn.pre.wire)
        /\ \A i \in 1..Len(Wire) :
              (IsHole(turn.pre.wire[i])
                   \/ turn.pre.wire[i].id # turn.pre.assistantId)
                  => Wire[i] = turn.pre.wire[i]
        /\ session.messages = turn.pre.display

\* a retry step that removed a placeholder from between other messages
C5_Witness ==
    /\ turn.pc = "sent"
    /\ turn.retry
    /\ Wire # turn.pre.wire
    /\ \E i, j \in 1..Len(Wire) :
          /\ i < j
          /\ ~IsHole(Wire[i])
          /\ IsHole(Wire[j])
          /\ ~IsHole(turn.pre.wire[j])

\* C6: doesSessionExist is true iff some turn request has received a
\* success response since the session was created or last shuffled: it
\* starts false, no non-success response or raised error sets it, and once
\* true it returns to false only through shuffleSession, which assigns a
\* new identifier.
C6_ExistsFlag ==
    /\ [](session.doesSessionExist = okSince)
    /\ [][(~session.doesSessionExist /\ session'.doesSessionExist)
              => (turn.pc = "sent" /\ Ok(turn'.status))]_vars
    /\ [][(session.doesSessionExist /\ ~session'.doesSessionExist)
              => /\ ShuffleSession
                 /\ session'.sessionId # session.sessionId
                 /\ session'.lmSession.id = session'.sessionId]_vars
    /\ [][(turn'.pc = "raised" /\ turn.pc \in {"idle", "auth", "read", "lines"})
              => session'.doesSessionExist = session.doesSessionExist]_vars

\* a session shuffled after a turn had streamed into it
C6_Witness ==
    /\ ~session.doesSessionExist
    /\ session.sessionId # FirstUuid
    /\ \E i \in 1..Len(Wire) : ~IsHole(Wire[i]) /\ Wire[i].status = "success"

\* C7: retry=true uses the retry endpoint keyed by the session id and the
\* current assistant-placeholder id with PUT, whether or not the session
\* exists; otherwise a session that does not exist uses the create endpoint
\* with POST and one that exists the append endpoint keyed by the session
\* id with POST.
C7_EndpointAndVerb ==
    [][(turn.pc = "idle" /\ turn'.pc = "sent") =>
          LET r == turn'.request
          IN  IF turn'.retry
              THEN /\ r.url.endpoint = "retry-evaluation-session-message"
                   /\ r.url.sessionId = session'.sessionId
                   /\ r.url.messageId = session'.lmSession.modelAMessageId
                   /\ r.method = "PUT"
              ELSE IF ~session'.doesSessionExist
              THEN /\ r.url.endpoint = "create-evaluation"
                   /\ r.method = "POST"
              ELSE /\ r.url.endpoint = "post-to-evaluation"
                   /\ r.url.sessionId = session'.sessionId
                   /\ r.method = "POST"]_vars

\* a retry request for a session that does not exist yet
C7_Witness ==
    /\ turn.pc = "sent"
    /\ turn.retry
    /\ ~session.doesSessionExist
    /\ turn.request.method = "PUT"
    /\ turn.request.url.messageId # NoId

\* ------------------------------------------------------------------------
\* Properties of the stream decoder (SpecStream)
\* ------------------------------------------------------------------------

\* the turn has a placeholder to decode into: always so in runInferenceV2
HasPlaceholder == turn.ph # 0

\* the turn's placeholder
Placeholder == Wire[turn.ph]

\* content, attachments and status of a wire message
Decoded(m) == <<m.content, m.experimental_attachments, m.status>>

\* the decoder's result when the whole body arrives as a single chunk
SingleChunk == DecodeWhole(turn.body, HasPlaceholder, turn.start)

\* C8: for every response body and every way of splitting it into read
\* chunks, a split inside a record included, the events yielded and the
\* final content, attachments and status of the placeholder are those
\* obtained when the body arrives as a single chunk.
C8_ChunkingIrrelevant ==
    turn.pc = "done" =>
        /\ turn.events = SingleChunk.events
        /\ HasPlaceholder => Decoded(Placeholder) = Decoded(SingleChunk.m)

\* a body of two records read in chunks that ended inside a record, both
\* records yielded
C8_Witness ==
    /\ turn.pc = "done"
    /\ turn.split
    /\ Len(turn.events) = 2
    /\ HasPlaceholder
    /\ Placeholder # turn.start

\* the record has the form <2-char-code>:<JSON>
WellFormed(rec) ==
    /\ Len(rec) >= 4
    /\ rec[1] # ":" /\ rec[2] # ":" /\ rec[3] = ":"
    /\ JSONParse(SubstringFrom(rec, 3)).ok
    /\ LET data == JSONParse(SubstringFrom(rec, 3)).v
       IN  Substring(rec, 0, 2) = Code("a", "2") =>
               /\ data.t = "array"
               /\ \A i \in 1..Len(data.v) : data.v[i].t = "object"

\* the record is too short, has no colon, or its payload is not JSON
Undecodable(rec) ==
    \/ Len(rec) < 4
    \/ IndexOf(rec, ":") = -1
    \/ ~JSONParse(SubstringFrom(rec, IndexOf(rec, ":") + 1)).ok

RECURSIVE Images(_, _)
\* the attachments of the image items among items[i..]
Images(items, i) ==
    IF i > Len(items) THEN <<>>
    ELSE IF Get(items[i], TypeKey) = ImageStr
    THEN <<ImageAttachment(items[i])>> \o Images(items, i + 1)
    ELSE Images(items, i + 1)

\* the effect of a record on the placeholder, by its code
Effect(m, code, data) ==
    IF code = Code("a", "0") /\ data.t = "string"
    THEN [m EXCEPT !.content = @ \o data.v]
    ELSE IF code = Code("a", "2")
    THEN [m EXCEPT !.experimental_attachments = @ \o Images(data.v, 1)]
    ELSE IF code = Code("a", "d")
    THEN [m EXCEPT !.status = "success"]
    ELSE m

\* the stream ends
StreamEnds == turn.pc = "read" /\ turn'.pc = "done"

\* C9: when the response stream ends while the buffer holds a non-empty
\* record that no newline terminated, the record is decoded exactly once as
\* the final record and, if well-formed, yielded with its placeholder
\* effect applied before the turn ends; if it cannot be decoded nothing is
\* yielded and nothing changes.
C9_LeftoverRecord ==
    [][(StreamEnds /\ turn.buffer # <<>> /\ HasPlaceholder) =>
          LET rec == turn.buffer
              code == Substring(rec, 0, 2)
              data == JSONParse(SubstringFrom(rec, 3)).v
          IN  /\ WellFormed(rec) =>
                    /\ turn'.events = Append(turn.events, Event(code, data))
                    /\ Placeholder' = Effect(Placeholder, code, data)
              /\ Undecodable(rec) =>
                    /\ turn'.events = turn.events
                    /\ Placeholder' = Placeholder
              /\ turn'.buffer = rec
              /\ \A i \in 1..Len(Wire) : i # turn.ph => Wire'[i] = Wire[i]]_vars

\* a stream that ended behind an unterminated ad:"done", which was yielded
\* and made the placeholder a success
C9_Witness ==
    /\ turn.pc = "done"
    /\ turn.buffer = RecEnd
    /\ Len(turn.events) = 2
    /\ turn.events[2] = Event(Code("a", "d"), JStr(<<"d", "o", "n", "e">>))
    /\ HasPlaceholder
    /\ turn.start.status = "pending"
    /\ Placeholder.status = "success"

\* the record's payload fails JSON decoding
BadPayload(rec) ==
    /\ Len(rec) >= 4
    /\ IndexOf(rec, ":") # -1
    /\ ~JSONParse(SubstringFrom(rec, IndexOf(rec, ":") + 1)).ok

RECURSIVE WithoutBadRecords(_)
\* the body with every record whose payload fails JSON decoding taken out,
\* its newline with it
WithoutBadRecords(bytes) ==
    IF bytes = <<>> THEN <<>>
    ELSE LET b == IndexOf(bytes, NL)
             raw == IF b = -1 THEN bytes ELSE Substring(bytes, 0, b + 1)
             text == DecodeChunk(FALSE, raw).text
             rec == IF b = -1 THEN text ELSE Trim(text)
             rest == IF b = -1 THEN <<>> ELSE SubstringFrom(bytes, b + 1)
         IN  (IF BadPayload(rec) THEN <<>> ELSE raw) \o WithoutBadRecords(rest)

\* the decoder's result for the body without its bad records
GoodOnly == DecodeWhole(WithoutBadRecords(turn.body), HasPlaceholder, turn.start)

\* the record the step decodes: the next line of the buffer, or the
\* leftover at the end of the stream
StepRecord ==
    IF turn.pc = "lines"
    THEN Trim(Substring(turn.buffer, 0, IndexOf(turn.buffer, NL)))
    ELSE turn.buffer

\* C10: a record whose payload fails JSON decoding yields no event and
\* changes no state, the turn does not raise because of it, and every
\* later well-formed record of the stream is still decoded and yielded in
\* stream order.
C10_BadRecordDropped ==
    /\ [](/\ turn.pc = "raised" => turn.cause = "transport"
          /\ turn.pc = "done" =>
                /\ turn.events = GoodOnly.events
                /\ HasPlaceholder => Placeholder = GoodOnly.m)
    /\ [][((turn.pc = "lines" \/ StreamEnds) /\ BadPayload(StepRecord)) =>
             /\ turn'.events = turn.events
             /\ session' = session
             /\ turn'.pc \in {"read", "lines", "done"}]_vars

\* a stream whose first record was bad and whose second was yielded
C10_Witness ==
    /\ turn.pc = "done"
    /\ turn.body = RecBad \o <<NL>> \o RecText \o <<NL>>
    /\ turn.events = <<Event(Code("a", "0"), JStr(<<"h", "i">>))>>
    /\ HasPlaceholder
    /\ Placeholder.content = <<"h", "i">>

RECURSIVE TextOf(_, _)
\* the string payloads of the events with a code of codes, concatenated in
\* the order of the events
TextOf(events, codes) ==
    IF events = <<>> THEN <<>>
    ELSE (IF Head(events).event \in codes /\ Head(events).data.t = "string"
          THEN Head(events).data.v
          ELSE <<>>) \o TextOf(Tail(events), codes)

\* the step decodes a record of the stream
Decodes == turn.pc = "lines" \/ StreamEnds

\* the payload of a well-formed record
PayloadOf(rec) == JSONParse(SubstringFrom(rec, 3)).v

\* C11: at every point of a streamed turn the placeholder's content is its
\* content at the start of the stream followed by the payloads, in stream
\* order, of all a0 records with a string payload decoded so far, and each
\* such record is yielded as an a0 event with that payload.
C11_ContentIsTextSoFar ==
    /\ [](HasPlaceholder =>
             Placeholder.content =
                 turn.start.content \o TextOf(turn.events, {Code("a", "0")}))
    /\ [][(/\ Decodes
           /\ HasPlaceholder
           /\ WellFormed(StepRecord)
           /\ Substring(StepRecord, 0, 2) = Code("a", "0")
           /\ PayloadOf(StepRecord).t = "string") =>
              /\ turn'.events =
                     Append(turn.events,
                            Event(Code("a", "0"), PayloadOf(StepRecord)))
              /\ Placeholder'.content =
                     Placeholder.content \o PayloadOf(StepRecord).v]_vars

\* in the middle of a stream: the first text record decoded, the second
\* still to come
C11_Witness ==
    /\ turn.pc = "read"
    /\ turn.body = RecText \o <<NL>> \o RecText \o <<NL>>
    /\ turn.pos < Len(turn.body)
    /\ HasPlaceholder
    /\ turn.events = <<Event(Code("a", "0"), JStr(<<"h", "i">>))>>
    /\ Placeholder.content = <<"h", "i">>

\* C12: decoding a c0 record with a string payload appends that string to
\* the placeholder's content exactly as an a0 record would, and the record
\* is forwarded to the caller as a c0 event.
C12_C0Appends ==
    (turn.pc = "done" /\ HasPlaceholder) =>
        /\ Placeholder.content =
               turn.start.content
                   \o TextOf(turn.events, {Code("a", "0"), Code("c", "0")})
        /\ turn.body = RecC0 \o <<NL>> =>
               turn.events = <<Event(Code("c", "0"), JStr(<<"x">>))>>

\* C13: a turn that ends with a terminal event whose data is "err" leaves
\* its placeholder "pending".
C13_ErrLeavesPending ==
    (/\ turn.pc = "done"
     /\ HasPlaceholder
     /\ turn.start.status = "pending"
     /\ turn.events # <<>>
     /\ turn.events[Len(turn.events)] = Event(Code("a", "d"), Err)) =>
        Placeholder.status = "pending"

\* {"error":"m"}
ErrorBodyM == ErrorBodyStart \o <<QT, "m", QT, "}">>

\* C14: for every non-success response that is neither a 422 nor a 429
\* carrying ratelimit-modality "image" (so also a 429 without that header),
\* a body {"error": m} makes the turn yield exactly a0 carrying m and then
\* ad with data "err".
C14_ErrorBodyRecovered ==
    (/\ Ended
     /\ turn.status # 0
     /\ ~Ok(turn.status)
     /\ turn.status # 422
     /\ ~(turn.status = 429 /\ turn.modality = "image")
     /\ turn.errorText = ErrorBodyM) =>
        /\ turn.pc = "done"
        /\ turn.events =
               <<Event(Code("a", "0"), JStr(ErrorPrefix \o <<"m">>)),
                 Event(Code("a", "d"), Err)>>

\* ------------------------------------------------------------------------
\* The bridge specification: concurrent makeAuthedRequest calls on one page
\* ------------------------------------------------------------------------

\* the page and the call r after a step
Put(r, pq) ==
    /\ page' = pq.p
    /\ reqs' = [reqs EXCEPT ![r] = pq.q]
    /\ UNCHANGED <<session, turn, uuid, calls, okSince, chats, arena, decoder>>

\* makeAuthedRequest is called and runs to its first await
MakeAuthedRequest(r) ==
    /\ reqs[r].pc = "idle"
    /\ Put(r, Called(page, reqs[r], r))

\* page.exposeFunction settles and the .then/.catch/.finally chain runs
ExposeSettles(result) ==
    /\ page.exposingBridge
    /\ page' = Exposed(page, result)
    /\ UNCHANGED <<session, turn, uuid, calls, okSince, reqs, chats, arena,
                   decoder>>

\* the call r resumes from `await page._exposingBridge`
BridgeAwaited(r) ==
    /\ reqs[r].pc = "exposing"
    /\ ~page.exposingBridge
    /\ Put(r, [p |-> page, q |-> Awaited(page, reqs[r])])

\* the browser side relays the message; without window.nodeStreamBridge in
\* the browser context the relay throws in the try block and in the catch
\* block, page.evaluate rejects and the executor ends by the error
Relay(r, type, q0) ==
    IF ~page.installed
    THEN Put(r, [p |-> page, q |-> [q0 EXCEPT !.pc = "raised", !.browser = "over"]])
    ELSE LET a == Relayed(page, q0, r, type)
         IN  Put(r, [p |-> a.p,
                     q |-> IF a.caught \/ type \in {"end", "error"}
                           THEN Over(a.q) ELSE a.q])

\* fetch resolves in the browser and meta is relayed; the caller that
\* awaited the promise resumes before the next message is handled, and
\* either takes a reader on the body at once (as the turn generators do for
\* a success response) or holds the response
BrowserMeta(r, reads) ==
    /\ reqs[r].browser = "fetch"
    /\ Relay(r, "meta",
             [reqs[r] EXCEPT !.browser = "body",
                             !.reader = IF reads THEN "locked" ELSE @])

\* fetch, or a read of the body, rejects in the browser: error is relayed
BrowserError(r) ==
    /\ reqs[r].browser \in {"fetch", "body"}
    /\ Relay(r, "error", reqs[r])

RECURSIVE ChunksSent(_)
\* the chunks relayed so far for the requests 1..n
ChunksSent(n) == IF n = 0 THEN 0 ELSE reqs[n].sent + ChunksSent(n - 1)

\* a chunk of the body is read in the browser and relayed
BrowserChunk(r) ==
    /\ reqs[r].browser = "body"
    /\ ChunksSent(MaxRequests) < MaxChunks
    /\ LET a == Relayed(page, reqs[r], r, "chunk")
       IN  Put(r, [p |-> a.p,
                   q |-> IF a.caught THEN Over(a.q)
                         ELSE [a.q EXCEPT !.sent = @ + 1]])

\* the body ends in the browser: end is relayed
BrowserEnd(r) ==
    /\ reqs[r].browser = "body"
    /\ Relay(r, "end", reqs[r])

\* reader.read() returns a chunk to the turn
ReaderRead(r) ==
    /\ reqs[r].reader = "locked"
    /\ reqs[r].queue # <<>>
    /\ Put(r, [p |-> page, q |-> [reqs[r] EXCEPT !.queue = Tail(@)]])

\* the caller stops iterating the turn (generator.return()): the finally
\* block of the read loop runs reader.releaseLock()
Abandon(r) ==
    /\ reqs[r].reader = "locked"
    /\ Put(r, [p |-> page,
               q |-> [reqs[r] EXCEPT !.reader = "released", !.abandoned = TRUE]])

\* the holder of the response cancels its body
HostCancel(r) ==
    /\ reqs[r].promise = "resolved"
    /\ reqs[r].reader = "none"
    /\ reqs[r].stream = "readable"
    /\ Put(r, Cancelled(page, reqs[r], r))

NextBridge ==
    \/ \E r \in ReqIds : MakeAuthedRequest(r)
    \/ \E result \in {"ok", "benign", "fatal"} : ExposeSettles(result)
    \/ \E r \in ReqIds : BridgeAwaited(r)
    \/ \E r \in ReqIds, reads \in BOOLEAN : BrowserMeta(r, reads)
    \/ \E r \in ReqIds : BrowserError(r)
    \/ \E r \in ReqIds : BrowserChunk(r)
    \/ \E r \in ReqIds : BrowserEnd(r)
    \/ \E r \in ReqIds : ReaderRead(r)
    \/ \E r \in ReqIds : Abandon(r)
    \/ \E r \in ReqIds : HostCancel(r)

SpecBridge == Init /\ [][NextBridge]_vars

\* C15: for any interleaving of concurrent makeAuthedRequest calls on one
\* page, calls racing on first use included, nodeStreamBridge is installed
\* via page.exposeFunction at most once, and no call starts its
\* browser-side fetch before that installation has finished.
C15_InstalledOnce ==
    /\ page.exposeCalls <= 1
    /\ \A r \in ReqIds :
          reqs[r].browser # "idle" =>
              /\ page.exposeCalls = 1
              /\ page.bridgeExposed
              /\ ~page.exposingBridge
              /\ page.exposeResult # ""

\* two calls that raced on first use, both fetching behind one installation
C15_Witness ==
    /\ page.exposeCalls = 1
    /\ page.exposeResult = "fulfilled"
    /\ \E r1, r2 \in ReqIds :
          /\ r1 # r2
          /\ reqs[r1].waited /\ reqs[r2].waited
          /\ reqs[r1].browser # "idle" /\ reqs[r2].browser # "idle"

\* C16: if installing the relay function fails with an error that is not
\* the double-install signature, every makeAuthedRequest call awaiting the
\* installation rejects with the error: it neither hangs nor goes on to
\* the browser-side fetch; with the double-install signature the call
\* goes on.
C16_FatalInstallRejects ==
    \A r \in ReqIds :
        (reqs[r].waited /\ reqs[r].pc # "exposing") =>
            IF page.exposeResult = "rejected"
            THEN reqs[r].promise = "rejected" /\ reqs[r].browser = "idle"
            ELSE reqs[r].browser # "idle"

\* C17: after the host side cancels the response stream of a request, the
\* handler registered under the request's token is not in
\* page._streamHandlers any more, so later relay messages for the token
\* reach no handler.
C17_CancelDeregisters ==
    \A r \in ReqIds : reqs[r].cancelled => r \notin page.streamHandlers

\* C18: if the caller abandons a turn's event sequence before it is
\* exhausted, the response stream is released and the bridge callback of
\* the turn's request token is deregistered, even when the browser-side
\* fetch keeps running.
C18_AbandonDeregisters ==
    \A r \in ReqIds :
        reqs[r].abandoned =>
            /\ reqs[r].reader = "released"
            /\ r \notin page.streamHandlers

\* C19: once the browser side has relayed a meta message or an error
\* message for a request token, the makeAuthedRequest promise is resolved
\* or rejected, so a relayed error, one relayed before any meta included,
\* ends the waiting turn.
C19_RelaySettles ==
    \A r \in ReqIds :
        (reqs[r].relayed \cap {"meta", "error"} # {}) =>
            reqs[r].promise # "pending"

\* the browser side of the request r relays a message in the step
Relays(r) ==
    \/ \E reads \in BOOLEAN : BrowserMeta(r, reads)
    \/ BrowserChunk(r)
    \/ BrowserEnd(r)
    \/ BrowserError(r)

\* C33: makeAuthedRequest resolves its response when the meta message for
\* its token arrives, without waiting for end; chunks relayed afterwards
\* are appended to the body of that response in relay order; end closes the
\* body and removes the token's handler; a message for a token without a
\* handler changes no request's stream, and no message changes the stream
\* of another request
C33_MetaResolvesBodyFollows ==
    /\ [](\A r \in ReqIds, type \in {"meta", "chunk", "end", "error"} :
             LET p == [page EXCEPT !.streamHandlers = @ \ {r}]
                 a == NodeStreamBridge(p, reqs[r], r, type)
             IN  /\ a.p = p
                 /\ a.q.promise = reqs[r].promise
                 /\ a.q.stream = reqs[r].stream
                 /\ a.q.queue = reqs[r].queue)
    /\ [][\A r \in ReqIds :
            /\ (page.installed /\ \E reads \in BOOLEAN : BrowserMeta(r, reads))
                  => /\ reqs'[r].promise = "resolved"
                     /\ reqs'[r].stream = "readable"
                     /\ reqs'[r].queue = <<>>
                     /\ r \in page'.streamHandlers
            /\ (page.installed /\ BrowserChunk(r)
                               /\ reqs[r].stream = "readable")
                  => /\ reqs'[r].promise = "resolved"
                     /\ reqs'[r].queue =
                           Append(reqs[r].queue, reqs[r].sent + 1)
                     /\ reqs'[r].stream = "readable"
            /\ (page.installed /\ BrowserEnd(r))
                  => /\ reqs'[r].stream # "readable"
                     /\ reqs'[r].queue = reqs[r].queue
                     /\ r \notin page'.streamHandlers
            /\ Relays(r)
                  => \A o \in ReqIds \ {r} : reqs'[o] = reqs[o]]_vars

\* the response of a request was resolved on meta, two chunks have been
\* appended to its body in order behind that and end has closed it, while
\* another request is still fetching
C33_Witness ==
    \E r, o \in ReqIds :
        /\ r # o
        /\ reqs[r].promise = "resolved"
        /\ reqs[r].queue = <<1, 2>>
        /\ reqs[r].stream = "closed"
        /\ ~reqs[r].cancelled
        /\ r \notin page.streamHandlers
        /\ reqs[o].browser = "fetch"
        /\ o \in page.streamHandlers

\* C38: in every state page._bridgeExposed is true only if nodeStreamBridge
\* is installed in the browser context: after an installation that failed
\* with an error that is not benign, no makeAuthedRequest skips the
\* installation and starts a browser-side fetch without a relay function
C38_ExposedMeansInstalled ==
    /\ page.bridgeExposed => page.installed
    /\ \A r \in ReqIds : reqs[r].browser # "idle" => page.installed

\* ------------------------------------------------------------------------
\* The generators specification: Chat.sendMessage generators started on one
\* session and resumed in any order at their awaits
\* ------------------------------------------------------------------------

\* the session and the generator c after a step
PutChat(c, s, ch, uuid1) ==
    /\ session' = s
    /\ chats' = [chats EXCEPT ![c] = ch]
    /\ uuid' = uuid1
    /\ UNCHANGED <<turn, calls, okSince, page, reqs, arena, decoder>>

\* the first next() of Chat.sendMessage(message): sendMessage runs to its
\* first await
ChatCalled(c, message) ==
    /\ chats[c].pc = "new"
    /\ message.role = "user"
    /\ PutChat(c, session, SendBegun(session, chats[c], message, uuid),
               IF message.id = NoId THEN uuid + 1 ELSE uuid)

\* sendMessage resumes behind convertChatMessageToLMMessage, which has
\* uploaded the attachments without a hosted URL, or it ends by the error
\* an upload raised
ChatConverted(c) ==
    /\ chats[c].pc = "converting"
    /\ LET atts == chats[c].message.attachments
           n == UploadsRun(atts)
           r == SendPushed(session, chats[c], uuid + n)
       IN  IF UploadRaises(atts)
           THEN PutChat(c, session, [chats[c] EXCEPT !.pc = "raised"],
                        uuid + n)
           ELSE PutChat(c, r.s, r.c, uuid + n + 1)

\* sendMessage resumes behind addFillerAssistantMessage and returns
ChatFilled(c) ==
    /\ chats[c].pc = "filling"
    /\ PutChat(c, SendDone(session, chats[c]),
               [chats[c] EXCEPT !.pc = "appended"], uuid)

\* Chat.sendMessage resumes behind sendMessage: runInferenceV2 runs to its
\* request
ChatInfers(c, retry) ==
    /\ chats[c].pc = "appended"
    /\ LET b == BeginTurn(session, "v2", NoOverride, retry, uuid)
       IN  PutChat(c, b.s, [chats[c] EXCEPT !.pc = b.t.pc, !.t = b.t], b.uuid)

\* the response of the generator's request arrives and its body is streamed
\* into the placeholder runInferenceV2 finds
ChatStreams(c, body) ==
    /\ chats[c].pc = "sent"
    /\ LET a == Accepted(session, [chats[c].t EXCEPT !.status = 200], body)
           st == DecodeWhole(body, TRUE, a.s.lmSession.messages[a.t.ph])
       IN  IF a.t.pc = "raised"
           THEN PutChat(c, a.s, [chats[c] EXCEPT !.pc = "raised", !.t = a.t], uuid)
           ELSE PutChat(c,
                        [a.s EXCEPT !.lmSession.messages[a.t.ph] = st.m],
                        [chats[c] EXCEPT
                            !.pc = "done",
                            !.t = [a.t EXCEPT !.pc = "done",
                                              !.events = st.events]],
                        uuid)

NextChats ==
    \/ \E c \in ChatIds, m \in Messages \cup AttachedMessages :
          ChatCalled(c, m)
    \/ \E c \in ChatIds : ChatConverted(c)
    \/ \E c \in ChatIds : ChatFilled(c)
    \/ \E c \in ChatIds, retry \in BOOLEAN : ChatInfers(c, retry)
    \/ \E c \in ChatIds, body \in TurnBodies : ChatStreams(c, body)

SpecChats == Init /\ [][NextChats]_vars

\* C20: for any interleaving of two Chat.sendMessage turn sequences started
\* on the same session, each turn's request carries the user-message id and
\* the placeholder id its own append created, and no placeholder receives
\* streamed text from two different turns.
C20_OwnPlaceholder ==
    /\ \A c \in ChatIds :
          chats[c].pc \in {"sent", "done"} =>
              /\ chats[c].t.payload.userMessageId = chats[c].message.id
              /\ chats[c].t.payload.modelAMessageId = chats[c].assistantMessageId
    /\ \A c, d \in ChatIds :
          (c # d /\ chats[c].pc = "done" /\ chats[d].pc = "done") =>
              chats[c].t.ph # chats[d].t.ph

\* ------------------------------------------------------------------------
\* Further properties of the session machine (Spec)
\* ------------------------------------------------------------------------

\* the step is a success response arriving at a turn of the revised form
AcceptedV2 ==
    /\ turn.form = "v2"
    /\ \E status \in Statuses, body \in TurnBodies : RespondOk(status, body)

\* C23: every turn of the revised form that receives a success response,
\* a retry turn whose placeholder was just removed included, goes on to
\* decode into a wire message whose id is the request's placeholder id; it
\* does not raise between the response and the first record.
C23_PlaceholderObtained ==
    [][AcceptedV2 =>
          /\ turn'.pc = "read"
          /\ turn'.ph \in 1..Len(session'.lmSession.messages)
          /\ ~IsHole(session'.lmSession.messages[turn'.ph])
          /\ session'.lmSession.messages[turn'.ph].id
                 = turn.payload.modelAMessageId]_vars

\* the step is sendMessage completing, on its own or as the first half of
\* Chat.sendMessage
Sends ==
    \E m \in Messages :
        AddMessage(m) \/ \E retry \in BOOLEAN : ChatSendMessage(m, retry)

\* the parents a message appended to the wire graph msgs is to have: none
\* if the graph holds no message, else the last message of the graph
ParentsIn(msgs) ==
    LET live == {i \in 1..Len(msgs) : ~IsHole(msgs[i])}
    IN  IF live = {} THEN <<>>
        ELSE <<msgs[CHOOSE i \in live : \A j \in live : j <= i].id>>

\* C24: after any sequence of sendMessage calls and retry turns, the wire
\* message sendMessage appends has no parent if the wire graph held no
\* message before, and else exactly the message that was last in the graph
\* before the append; no wire message has more than one parent.
C24_SingleParentChain ==
    /\ [][Sends =>
             LET n == Len(Wire) + 1
             IN  /\ Len(session'.lmSession.messages) >= n
                 /\ session'.lmSession.messages[n].parentMessageIds
                        = ParentsIn(Wire)]_vars
    /\ [](\A i \in 1..Len(Wire) :
              ~IsHole(Wire[i]) => Len(Wire[i].parentMessageIds) <= 1)

\* the wire graph msgs holds a message with the id
Holds(msgs, id) ==
    \E i \in 1..Len(msgs) : ~IsHole(msgs[i]) /\ msgs[i].id = id

\* the step is Chat.sendMessage(message, true) sending its request, in a
\* session whose earlier turn left its placeholder in the wire graph
Reissued ==
    /\ Holds(Wire, session.lmSession.modelAMessageId)
    /\ \E m \in Messages : ChatSendMessage(m, TRUE)
    /\ turn'.pc = "sent"

\* C28: a turn re-issued through Chat.sendMessage(message, true) sends its
\* request to the retry endpoint keyed by the placeholder id that was
\* active before the call, and the wire graph then holds no assistant entry
\* of the turn being retried.
C28_RetryKeyedByErroredTurn ==
    [][Reissued =>
          /\ turn'.request.url.endpoint = "retry-evaluation-session-message"
          /\ turn'.request.url.messageId = session.lmSession.modelAMessageId
          /\ ~Holds(session'.lmSession.messages,
                    session.lmSession.modelAMessageId)]_vars

\* ------------------------------------------------------------------------
\* Further properties of the decoder (SpecStream)
\* ------------------------------------------------------------------------

\* 0-based index of the first colon of the record behind its first 2
\* characters, -1 when there is none
ColonBehindCode(rec) == IndexFrom(rec, ":", 3)

\* C29: for every record of at least 4 characters the event code is its
\* first 2 characters and the payload is the text behind the first colon
\* found after those 2 characters, a colon within them not being the
\* delimiter; a record shorter than 4 characters yields no event and
\* changes no state.
C29_CodeAndPayload ==
    [][(Decodes /\ HasPlaceholder) =>
          LET rec == StepRecord
              payload == JSONParse(SubstringFrom(rec, ColonBehindCode(rec) + 1))
          IN  /\ (/\ Len(rec) >= 4
                  /\ ColonBehindCode(rec) # -1
                  /\ payload.ok) =>
                     turn'.events =
                         Append(turn.events,
                                Event(Substring(rec, 0, 2), payload.v))
              /\ Len(rec) < 4 =>
                     /\ turn'.events = turn.events
                     /\ session' = session]_vars

\* an ad event has been yielded in the turn
AdYielded ==
    \E i \in 1..Len(turn.events) : turn.events[i].event = Code("a", "d")

\* C30: an ad event is terminal: once one has been yielded, no further
\* event is yielded in the turn and the placeholder is not mutated again,
\* even if the response body holds more records behind the ad record.
C30_AdTerminal ==
    [][AdYielded =>
          /\ turn'.events = turn.events
          /\ session' = session]_vars

\* a record of a 2-character code, a colon and a JSON payload, the code
\* being none of a0, c0, a2 and ad
OtherCode(rec) ==
    /\ Len(rec) >= 4
    /\ rec[1] # ":" /\ rec[2] # ":" /\ rec[3] = ":"
    /\ Substring(rec, 0, 2) \notin
          {Code("a", "0"), Code("c", "0"), Code("a", "2"), Code("a", "d")}
    /\ JSONParse(SubstringFrom(rec, 3)).ok

\* C32: decoding a well-formed record whose code is a3, or any code other
\* than a0, c0, a2 and ad, leaves the placeholder's content, attachments
\* and status and the rest of the session unchanged and yields exactly one
\* event, which carries that code and the decoded payload
C32_OtherCodesForwarded ==
    [][(Decodes /\ OtherCode(StepRecord)) =>
          /\ turn'.events =
                Append(turn.events,
                       Event(Substring(StepRecord, 0, 2),
                             JSONParse(SubstringFrom(StepRecord, 3)).v))
          /\ session' = session]_vars

\* an a3 record and an e3 record have each been forwarded behind a text
\* record, which alone reached the placeholder
C32_Witness ==
    /\ turn.pc = "done"
    /\ HasPlaceholder
    /\ Len(turn.events) = 2
    /\ turn.events[1] = Event(Code("a", "0"), JStr(<<"h", "i">>))
    /\ turn.events[2] \in {Event(Code("a", "3"), JNum(<<"1">>)),
                           Event(Code("e", "3"), JObj(<<>>))}
    /\ Placeholder.content = turn.start.content \o <<"h", "i">>
    /\ Placeholder.status = turn.start.status

\* a record of a 2-character code, a colon and a JSON payload
JsonRecord(rec) ==
    /\ Len(rec) >= 4
    /\ rec[1] # ":" /\ rec[2] # ":" /\ rec[3] = ":"
    /\ JSONParse(SubstringFrom(rec, 3)).ok

\* C37: every record of at least 4 characters whose payload is valid JSON
\* yields exactly one event of its code and its decoded payload, whatever
\* the code and the shape of the payload (an a2 record whose payload is no
\* array, or holds an item that is no object, included); and a record that
\* yields no event leaves the placeholder as it was
C37_EveryRecordForwarded ==
    [][(Decodes /\ HasPlaceholder) =>
          /\ JsonRecord(StepRecord) =>
                turn'.events =
                    Append(turn.events,
                           Event(Substring(StepRecord, 0, 2),
                                 PayloadOf(StepRecord)))
          /\ turn'.events = turn.events => session' = session]_vars

\* ------------------------------------------------------------------------
\* Properties of the generators (SpecChats)
\* ------------------------------------------------------------------------

\* the value is a URL: a string that is not empty
IsUrl(val) == val.t = "string" /\ val.v # <<>>

\* the URL the attachment is to be attached with: its hosted URL if it has
\* one, and else the URL of its upload
UrlFor(att) == IF IsUrl(att.r2BucketUrl) THEN att.r2BucketUrl ELSE UploadedUrl

\* the wire message of the generator c, once sendMessage has appended it
Appended(c, i) ==
    /\ chats[c].pc \in {"filling", "appended", "sent", "done"}
    /\ i \in 1..Len(Wire)
    /\ ~IsHole(Wire[i])
    /\ Wire[i].id = chats[c].message.id
    /\ Wire[i].role = "user"

\* C22: in every session state every entry of a wire message's
\* experimental_attachments has a resolved remote URL and no raw bytes: an
\* attachment that had a hosted URL is attached with it, any other was
\* uploaded first and is attached with the uploaded URL, and none is
\* attached with a missing URL.
C22_AttachmentsResolved ==
    /\ \A i \in 1..Len(Wire) :
          ~IsHole(Wire[i]) =>
              \A k \in 1..Len(Wire[i].experimental_attachments) :
                  LET e == Wire[i].experimental_attachments[k]
                  IN  /\ DOMAIN e = {"contentType", "name", "url"}
                      /\ IsUrl(e.url)
    /\ \A c \in ChatIds, i \in 1..Len(Wire) :
          Appended(c, i) =>
              LET atts == chats[c].message.attachments
              IN  /\ Len(Wire[i].experimental_attachments) = Len(atts)
                  /\ \A k \in 1..Len(atts) :
                        Wire[i].experimental_attachments[k].url
                            = UrlFor(atts[k])


\* ------------------------------------------------------------------------
\* updateArenaAuth under concurrent turns (SpecAuth)
\* ------------------------------------------------------------------------

\* the response is a 429 with ratelimit-modality: image; the turn calls
\* updateArenaAuth(), which runs up to its first await
Throttled(i) ==
    /\ arena.auth[i].pc = "inference"
    /\ arena' = [arena EXCEPT !.auth[i].pc = "deleteAuth"]
    /\ UNCHANGED <<session, turn, uuid, calls, okSince, page, reqs, chats,
                   decoder>>

\* await ch.deleteCookieByName("arena-auth-prod-v1")
AuthCookieDeleted(i) ==
    /\ arena.auth[i].pc = "deleteAuth"
    /\ arena' = [arena EXCEPT !.authCookie = FALSE,
                              !.auth[i].pc = "deleteProv"]
    /\ UNCHANGED <<session, turn, uuid, calls, okSince, page, reqs, chats,
                   decoder>>

\* await ch.deleteCookieByName("provisional_user_id")
ProvCookieDeleted(i) ==
    /\ arena.auth[i].pc = "deleteProv"
    /\ arena' = [arena EXCEPT !.provCookie = FALSE, !.auth[i].pc = "fetch"]
    /\ UNCHANGED <<session, turn, uuid, calls, okSince, page, reqs, chats,
                   decoder>>

\* await makeAuthedRequest(GET https://lmarena.ai/): the site sets a
\* provisional_user_id cookie, or does not
ProvisionalFetched(i, sets) ==
    /\ arena.auth[i].pc = "fetch"
    /\ arena' = [arena EXCEPT !.provCookie = @ \/ sets, !.auth[i].pc = "text"]
    /\ UNCHANGED <<session, turn, uuid, calls, okSince, page, reqs, chats,
                   decoder>>

\* await provResponse.text()
ProvisionalRead(i) ==
    /\ arena.auth[i].pc = "text"
    /\ arena' = [arena EXCEPT !.auth[i].pc = "cookie"]
    /\ UNCHANGED <<session, turn, uuid, calls, okSince, page, reqs, chats,
                   decoder>>

\* await ch.getCookieByName("provisional_user_id");
\* if (!cookie) return [false, null, prt]
CookieRead(i) ==
    /\ arena.auth[i].pc = "cookie"
    /\ arena' = IF arena.provCookie
                THEN [arena EXCEPT !.auth[i].pc = "token"]
                ELSE [arena EXCEPT !.auth[i].pc = "returned",
                                   !.auth[i].outcome = "noCookie"]
    /\ UNCHANGED <<session, turn, uuid, calls, okSince, page, reqs, chats,
                   decoder>>

\* await this.browser.getCfToken()
TokenGot(i) ==
    /\ arena.auth[i].pc = "token"
    /\ arena' = [arena EXCEPT !.auth[i].pc = "signUp"]
    /\ UNCHANGED <<session, turn, uuid, calls, okSince, page, reqs, chats,
                   decoder>>

\* await makeAuthedRequest(POST sign-up): if (response.ok) return
\* [true, clearance, ""]
SignedUp(i, ok) ==
    /\ arena.auth[i].pc = "signUp"
    /\ arena' = IF ok
                THEN [arena EXCEPT !.authCookie = TRUE,
                                   !.auth[i].pc = "returned",
                                   !.auth[i].outcome = "updated"]
                ELSE [arena EXCEPT !.auth[i].pc = "errorText"]
    /\ UNCHANGED <<session, turn, uuid, calls, okSince, page, reqs, chats,
                   decoder>>

\* const rt = await response.text(); return [false, clearance, rt]
SignUpRefused(i) ==
    /\ arena.auth[i].pc = "errorText"
    /\ arena' = [arena EXCEPT !.auth[i].pc = "returned",
                              !.auth[i].outcome = "signUpFailed"]
    /\ UNCHANGED <<session, turn, uuid, calls, okSince, page, reqs, chats,
                   decoder>>

\* the turn resumes with updateArenaAuth's array, yields its notice and ends
AuthNoticed(i) ==
    /\ arena.auth[i].pc = "returned"
    /\ arena' = [arena EXCEPT !.auth[i] =
                    AfterAuth(@, UpdateArenaAuthResult(@.outcome))]
    /\ UNCHANGED <<session, turn, uuid, calls, okSince, page, reqs, chats,
                   decoder>>

NextAuth ==
    \E i \in 1..MaxSessions :
        \/ Throttled(i)
        \/ AuthCookieDeleted(i)
        \/ ProvCookieDeleted(i)
        \/ \E sets \in BOOLEAN : ProvisionalFetched(i, sets)
        \/ ProvisionalRead(i)
        \/ CookieRead(i)
        \/ TokenGot(i)
        \/ \E ok \in BOOLEAN : SignedUp(i, ok)
        \/ SignUpRefused(i)
        \/ AuthNoticed(i)

SpecAuth == Init /\ [][NextAuth]_vars

\* an updateArenaAuth call of session i has started and not returned
Refreshing(i) ==
    arena.auth[i].pc \in {"deleteAuth", "deleteProv", "fetch", "text",
                          "cookie", "token", "signUp", "errorText"}

\* C21: over all interleavings of turns on different sessions that each
\* get a 429 image-throttle response, at most one updateArenaAuth operation
\* (cookie deletion, provisional-id fetch, sign-up) is in progress at a time
C21_AuthRefreshExclusive ==
    \A i, j \in 1..MaxSessions : Refreshing(i) /\ Refreshing(j) => i = j


\* ------------------------------------------------------------------------
\* parseAndDereference (SpecDecode)
\* ------------------------------------------------------------------------

\* parseAndDereference(responseText) up to the loop over the lines
DecodeCalled ==
    /\ decoder.pc = "input"
    /\ \E responseText \in ResponseTexts :
          decoder' =
             IF responseText = <<>>
             THEN [decoder EXCEPT !.pc = "returned", !.result = JNull]
             ELSE [decoder EXCEPT !.pc = "lines", !.text = responseText,
                                  !.lines = Split(Trim(responseText))]
    /\ UNCHANGED <<session, turn, uuid, calls, okSince, page, reqs, chats,
                   arena>>

\* the loop takes the next line
LineRead ==
    /\ decoder.pc = "lines"
    /\ decoder.lines # <<>>
    /\ decoder' = StoreLine([decoder EXCEPT !.lines = Tail(@)],
                            Head(decoder.lines))
    /\ UNCHANGED <<session, turn, uuid, calls, okSince, page, reqs, chats,
                   arena>>

\* behind the loop: the root is looked up and dereferenced
RootResolved ==
    /\ decoder.pc = "lines"
    /\ decoder.lines = <<>>
    /\ decoder' =
          IF Has(decoder.dataMap, <<"0">>)
          THEN [decoder EXCEPT
                  !.pc = "returned",
                  !.result = dereference(GetFrom(decoder.dataMap, <<"0">>,
                                                 Len(decoder.dataMap)),
                                         decoder.dataMap)]
          ELSE [decoder EXCEPT !.pc = "raised", !.error = "root"]
    /\ UNCHANGED <<session, turn, uuid, calls, okSince, page, reqs, chats,
                   arena>>

NextDecode ==
    \/ DecodeCalled
    \/ LineRead
    \/ RootResolved

SpecDecode == Init /\ [][NextDecode]_vars


\* ------------------------------------------------------------------------
\* Properties of parseAndDereference (SpecDecode)
\* ------------------------------------------------------------------------

\* the call has returned or raised
CallEnded == decoder.pc \in {"returned", "raised"}

\* C25: for every input in which no data record with id "0" is stored,
\* empty input and input of skipped lines only included, the call fails
\* with the root-missing error and never returns a value
C25_RootMissingRaises ==
    (CallEnded /\ ~Has(decoder.dataMap, <<"0">>) /\ decoder.error # "parse")
        => (decoder.pc = "raised" /\ decoder.error = "root")

\* a string that is exactly $@ followed by one or more digits
Reference(value) ==
    /\ value.t = "string"
    /\ Len(value.v) > 2
    /\ SubSeq(value.v, 1, 2) = <<"$", "@">>
    /\ \A i \in 3..Len(value.v) : value.v[i] \in Digits

RECURSIVE Resolved(_, _)
\* the value with every reference replaced by the resolved value of the
\* record it names, or by null when no record is stored under that id;
\* arrays and objects element by element, everything else as it is
Resolved(value, records) ==
    CASE Reference(value) ->
            LET stored == GetFrom(records, SubSeq(value.v, 3, Len(value.v)),
                                  Len(records))
            IN  IF stored = JUndefined THEN JNull
                ELSE Resolved(stored, records)
      [] value.t = "array" ->
            JArr([i \in 1..Len(value.v) |-> Resolved(value.v[i], records)])
      [] value.t = "object" ->
            JObj([i \in 1..Len(value.v) |->
                    [k |-> value.v[i].k,
                     v |-> Resolved(value.v[i].v, records)]])
      [] OTHER -> value

\* C26: for a well-formed, cycle-free record set with a root the call
\* returns the value stored at id "0" with every string that is exactly
\* $@<digits> replaced, recursively and through chains, by the resolved
\* value of that id, or by null when no record is stored under it; arrays
\* and objects keep their structure, other values are unchanged
C26_ReferencesResolved ==
    decoder.pc = "returned" /\ Has(decoder.dataMap, <<"0">>)
        => decoder.result =
              Resolved(GetFrom(decoder.dataMap, <<"0">>,
                               Len(decoder.dataMap)), decoder.dataMap)

\* the line has no colon, or its payload does not start with {, [ or "
ToSkip(line) ==
    \/ IndexOf(line, ":") = -1
    \/ LET payload == SubstringFrom(line, IndexOf(line, ":") + 1)
       IN  payload = <<>> \/ payload[1] \notin {"{", "[", QT}

\* C27: a line with no colon and a line whose payload's first character is
\* not {, [ or " are passed over with nothing stored and nothing raised; a
\* line whose payload starts with one of them and fails JSON decoding makes
\* the call raise an error naming the line's id, whatever is stored so far
C27_SkipOrRaise ==
    [][decoder.pc = "lines" /\ decoder.lines # <<>>
         => LET line == Head(decoder.lines)
                colon == IndexOf(line, ":")
            IN  IF ToSkip(line)
                THEN /\ decoder'.dataMap = decoder.dataMap
                     /\ decoder'.pc = "lines"
                     /\ decoder'.error = ""
                ELSE ~JSONParse(SubstringFrom(line, colon + 1)).ok
                       => /\ decoder'.pc = "raised"
                          /\ decoder'.error = "parse"
                          /\ decoder'.errorId = Substring(line, 0, colon)
                          /\ decoder'.result = JUndefined]_vars

\* a text of three lines: the root was stored, the control line behind it
\* was skipped and the last line, with id 1, failed to decode
C27_RaisedBehindRoot ==
    /\ decoder.pc = "raised"
    /\ decoder.error = "parse"
    /\ decoder.errorId = <<"1">>
    /\ Len(Split(Trim(decoder.text))) = 3
    /\ IndexOf(Split(Trim(decoder.text))[2], ":") # -1
    /\ ToSkip(Split(Trim(decoder.text))[2])
    /\ decoder.lines = <<>>
    /\ decoder.dataMap = <<[k |-> <<"0">>, v |-> JStr(<<"p">>)]>>


\* ------------------------------------------------------------------------
\* Silent stops, later turns and message ids (Spec)
\* ------------------------------------------------------------------------

\* a non-success response that none of the recovery rules matches: not a
\* 422, not a 429 with ratelimit-modality image, no body starting {"error":
Unmatched(t) ==
    /\ ~Ok(t.status)
    /\ t.status # 422
    /\ ~(t.status = 429 /\ t.modality = "image")
    /\ ~(/\ Len(t.errorText) >= Len(ErrorBodyStart)
         /\ SubSeq(t.errorText, 1, Len(ErrorBodyStart)) = ErrorBodyStart)

RetryWasRun == \E i \in 1..Len(Wire) : IsHole(Wire[i])

\* C35: after a retry turn has been run on the session, a later non-retry
\* turn (Chat.sendMessage(message, false): sendMessage, then runInferenceV2)
\* sends its request without raising, with a payload built from the new user
\* message
C35_UsableAfterRetry ==
    [][\A m \in Messages :
          (RetryWasRun /\ m.role = "user" /\ ChatSendMessage(m, FALSE))
          => /\ turn'.pc = "sent"
             /\ turn'.payload.userMessageId = session'.lmSession.userMessageId
             /\ turn'.payload.content = m.content]_vars

\* C36: in every session state the ids of the messages of the wire graph are
\* pairwise distinct, and so are the ids of the display messages, also after
\* Chat.sendMessage has been called again with a message it was given before
C36_DistinctIds ==
    /\ \A i, j \in 1..Len(Wire) :
          (i # j /\ ~IsHole(Wire[i]) /\ ~IsHole(Wire[j]))
          => Wire[i].id # Wire[j].id
    /\ \A i, j \in 1..Len(session.messages) :
          i # j => session.messages[i].id # session.messages[j].id


\* ------------------------------------------------------------------------
\* LMArena.action under concurrent calls (SpecAction)
\* ------------------------------------------------------------------------

\* action(key) up to its first await
ActionCalled(c, key) ==
    /\ arena.lookups[c].pc = "new"
    /\ arena' =
          IF arena.actionCache[key] # ""
          THEN [arena EXCEPT !.lookups[c].key = key,
                             !.lookups[c].pc = "returned",
                             !.lookups[c].result = arena.actionCache[key]]
          ELSE IF KEY_DK_MAP(key) = ""
          THEN [arena EXCEPT !.lookups[c].key = key,
                             !.lookups[c].pc = "raised"]
          ELSE [arena EXCEPT !.lookups[c].key = key,
                             !.lookups[c].pc = "listing"]
    /\ UNCHANGED <<session, turn, uuid, calls, okSince, page, reqs, chats,
                   decoder>>

\* page.evaluate resolves with the script resources of the page
ScriptsListed(c) ==
    /\ arena.lookups[c].pc = "listing"
    /\ arena' = Scan([arena EXCEPT !.lookups[c].urls = arena.loaded], c)
    /\ UNCHANGED <<session, turn, uuid, calls, okSince, page, reqs, chats,
                   decoder>>

\* the request for the chunk and its text() resolve
ScriptFetched(c) ==
    /\ arena.lookups[c].pc = "fetching"
    /\ LET l == arena.lookups[c]
       IN  arena' = Scan([arena EXCEPT
                             !.scriptCache = @ \cup {Head(l.urls)},
                             !.lookups[c] = Matched(l, Head(l.urls))], c)
    /\ UNCHANGED <<session, turn, uuid, calls, okSince, page, reqs, chats,
                   decoder>>

\* refetchModels reloads the page, which then has the resources of the
\* site as it is served at that time
PageReloaded(resources) ==
    /\ resources # arena.loaded
    /\ arena' = [arena EXCEPT !.loaded = resources]
    /\ UNCHANGED <<session, turn, uuid, calls, okSince, page, reqs, chats,
                   decoder>>

NextAction ==
    \/ \E c \in 1..MaxLookups, key \in ActionKeys : ActionCalled(c, key)
    \/ \E c \in 1..MaxLookups : ScriptsListed(c)
    \/ \E c \in 1..MaxLookups : ScriptFetched(c)
    \/ \E resources \in PageLoads : PageReloaded(resources)

SpecAction == Init /\ [][NextAction]_vars

\* C34: once action(key) has returned an identifier for a key, every later
\* action(key) returns the same identifier without issuing any transport
\* request; a lookup that finds no matching script, or an unknown key,
\* raises and leaves the action cache without an entry for that key
C34_ActionCached ==
    [][\A c \in 1..MaxLookups :
          /\ \A key \in ActionKeys :
                ActionCalled(c, key) =>
                    \A o \in 1..MaxLookups :
                        (arena.lookups[o].pc = "returned"
                            /\ arena.lookups[o].key = key)
                        => /\ arena'.lookups[c].pc = "returned"
                           /\ arena'.lookups[c].result = arena.lookups[o].result
                           /\ arena'.lookups[c].requests = 0
          /\ (arena.lookups[c].pc # "raised"
                /\ arena'.lookups[c].pc = "raised")
                => arena'.actionCache = arena.actionCache]_vars

\* ------------------------------------------------------------------------
\* sendMessage with the upload handshake await by await (SpecSend): calls
\* of sendMessage on one session, one after the other
\* ------------------------------------------------------------------------

\* the awaits of uploadAttachmentToR2 at which it can raise: action
\* (ATTACHMENT_URL_INIT), the upload-URL request and its answer, the PUT to
\* the bucket, action(ATTACHMENT_FETCH_URL), the final-URL request and its
\* answer
UploadAwaits == 5

\* the first attachment from index i on the loop has to upload, behind the
\* last one if there is none
NextUpload(atts, i) ==
    IF \E j \in i..Len(atts) : ToUpload(atts[j])
    THEN CHOOSE j \in i..Len(atts) :
             /\ ToUpload(atts[j])
             /\ \A k \in i..(j - 1) : ~ToUpload(atts[k])
    ELSE Len(atts) + 1

\* sendMessage ended by an exception with the display message pushed before
\* the conversion
SendRaised_Pushed(s, c) ==
    [s |-> [s EXCEPT !.messages = Append(@, c.message)],
     c |-> [c EXCEPT !.pc = "raised", !.step = 0]]

\* sendMessage ended by the exception convertChatMessageToLMMessage passed
\* on: the pushes behind the await have not run
SendRaised(s, c) ==
    [s |-> s, c |-> [c EXCEPT !.pc = "raised", !.step = 0]]

\* no call of sendMessage is under way
NoSendRunning ==
    \A c \in ChatIds : chats[c].pc \in {"new", "appended", "raised"}

\* sendMessage(session, message) runs to its first await
SendMessageCalled(c, message) ==
    /\ NoSendRunning
    /\ chats[c].pc = "new"
    /\ PutChat(c, session, SendBegun(session, chats[c], message, uuid),
               IF message.id = NoId THEN uuid + 1 ELSE uuid)

\* the loop passes the hosted attachments and calls uploadAttachmentToR2 for
\* the next one, which names the file and awaits action
UploadCalled(c) ==
    /\ chats[c].pc = "converting"
    /\ chats[c].step = 0
    /\ LET atts == chats[c].message.attachments
           j == NextUpload(atts, chats[c].att)
       IN  /\ j <= Len(atts)
           /\ PutChat(c, session, [chats[c] EXCEPT !.att = j, !.step = 1],
                      uuid + 1)

\* an await of uploadAttachmentToR2 gives what the next step needs
UploadAwaited(c) ==
    /\ chats[c].pc = "converting"
    /\ chats[c].step \in 1..(UploadAwaits - 1)
    /\ PutChat(c, session, [chats[c] EXCEPT !.step = @ + 1], uuid)

\* uploadAttachmentToR2 raises: an await rejects, or the answer is refused
UploadRaised(c) ==
    /\ chats[c].pc = "converting"
    /\ chats[c].step \in 1..UploadAwaits
    /\ chats[c].message.attachments[chats[c].att].upload = "raises"
    /\ LET r == SendRaised(session, chats[c])
       IN  PutChat(c, r.s, r.c, uuid)

\* uploadAttachmentToR2 returns the URL and the key
UploadReturned(c) ==
    /\ chats[c].pc = "converting"
    /\ chats[c].step = UploadAwaits
    /\ chats[c].message.attachments[chats[c].att].upload = "ok"
    /\ PutChat(c, session, [chats[c] EXCEPT !.att = @ + 1, !.step = 0], uuid)

\* the loop ends: sendMessage resumes behind the conversion, pushes both
\* messages and, for a user message, calls addFillerAssistantMessage
Converted(c) ==
    /\ chats[c].pc = "converting"
    /\ chats[c].step = 0
    /\ NextUpload(chats[c].message.attachments, chats[c].att)
           > Len(chats[c].message.attachments)
    /\ LET r == SendPushed(session, chats[c], uuid)
       IN  PutChat(c, r.s, r.c,
                   IF chats[c].message.role = "user" THEN uuid + 1 ELSE uuid)

NextSend ==
    \/ \E c \in ChatIds, m \in Messages \cup AttachedMessages :
          SendMessageCalled(c, m)
    \/ \E c \in ChatIds : UploadCalled(c)
    \/ \E c \in ChatIds : UploadAwaited(c)
    \/ \E c \in ChatIds : UploadRaised(c)
    \/ \E c \in ChatIds : UploadReturned(c)
    \/ \E c \in ChatIds : Converted(c)
    \/ \E c \in ChatIds : ChatFilled(c)

SpecSend == Init /\ [][NextSend]_vars

\* C39: if an upload raises during sendMessage, at whatever await of the
\* handshake, sendMessage raises, and the session (display history, wire
\* graph, userMessageId, modelAMessageId) is as it was before the call:
\* nothing is appended before the conversion has returned
C39_FailedSendLeavesSession ==
    [][\A c \in ChatIds :
          /\ (chats'[c] # chats[c] /\ chats'[c].pc \in {"converting", "raised"})
                => session' = session
          /\ (chats[c].pc = "converting"
                 /\ chats'[c].pc \in {"filling", "appended"})
                => ~UploadRaises(chats[c].message.attachments)]_vars

\* a second call whose second attachment failed to upload, behind a first
\* call that appended its message and placeholder: the session holds what
\* the first call left, and no message of the id of the second
C39_Witness ==
    \E c, d \in ChatIds :
        /\ chats[d].pc = "appended"
        /\ chats[c].pc = "raised"
        /\ chats[c].att = 2
        /\ UploadRaises(chats[c].message.attachments)
        /\ Len(session.messages) = 1
        /\ Len(Wire) = 2
        /\ session.lmSession.userMessageId = chats[d].message.id
        /\ session.lmSession.modelAMessageId = chats[d].assistantMessageId
        /\ \A i \in 1..Len(Wire) : Wire[i].id # chats[c].message.id

\* ------------------------------------------------------------------------
\* getLMArena under concurrent calls (SpecInstance)
\* ------------------------------------------------------------------------

\* getLMArena runs to its await of init, which it starts on the instance it
\* has just stored, or returns the instance it finds stored
GetLMArenaCalled(c) ==
    /\ arena.callers[c].pc = "new"
    /\ arena' =
          IF ~arena.instance.created
          THEN [arena EXCEPT
                   !.instance = [created |-> TRUE, models |-> "null",
                                 init |-> "browser", inits |-> @.inits + 1],
                   !.callers[c].pc = "awaiting"]
          ELSE [arena EXCEPT
                   !.callers[c] = [pc |-> "returned",
                                   got |-> arena.instance.models]]
    /\ UNCHANGED <<session, turn, uuid, calls, okSince, page, reqs, chats,
                   decoder>>

\* browser.init, then browser.updateCookies, resolves
InitAwaited ==
    /\ arena.instance.init \in {"browser", "cookies"}
    /\ arena' = [arena EXCEPT
                    !.instance.init = IF @ = "browser" THEN "cookies"
                                      ELSE "models"]
    /\ UNCHANGED <<session, turn, uuid, calls, okSince, page, reqs, chats,
                   decoder>>

\* browser.getModels resolves: init sets this.models and returns
InitDone ==
    /\ arena.instance.init = "models"
    /\ arena' = [arena EXCEPT !.instance.init = "done",
                              !.instance.models = "map"]
    /\ UNCHANGED <<session, turn, uuid, calls, okSince, page, reqs, chats,
                   decoder>>

\* one of the awaits of init rejects
InitRaised ==
    /\ arena.instance.init \in {"browser", "cookies", "models"}
    /\ arena' = [arena EXCEPT !.instance.init = "raised"]
    /\ UNCHANGED <<session, turn, uuid, calls, okSince, page, reqs, chats,
                   decoder>>

\* getLMArena resumes behind init and returns the instance
GetLMArenaReturned(c) ==
    /\ arena.callers[c].pc = "awaiting"
    /\ arena.instance.init = "done"
    /\ arena' = [arena EXCEPT
                    !.callers[c] = [pc |-> "returned",
                                    got |-> arena.instance.models]]
    /\ UNCHANGED <<session, turn, uuid, calls, okSince, page, reqs, chats,
                   decoder>>

\* getLMArena ends by the exception of init
GetLMArenaRaised(c) ==
    /\ arena.callers[c].pc = "awaiting"
    /\ arena.instance.init = "raised"
    /\ arena' = [arena EXCEPT !.callers[c].pc = "raised"]
    /\ UNCHANGED <<session, turn, uuid, calls, okSince, page, reqs, chats,
                   decoder>>

NextInstance ==
    \/ \E c \in 1..MaxCallers : GetLMArenaCalled(c)
    \/ InitAwaited
    \/ InitDone
    \/ InitRaised
    \/ \E c \in 1..MaxCallers : GetLMArenaReturned(c)
    \/ \E c \in 1..MaxCallers : GetLMArenaRaised(c)

SpecInstance == Init /\ [][NextInstance]_vars

\* C40: for any interleaving of concurrent getLMArena calls init is started
\* at most once, and no caller receives the shared instance before that
\* init has completed: the instance a caller gets has its model catalog set
C40_InitOnceThenShared ==
    /\ arena.instance.inits <= 1
    /\ \A c \in 1..MaxCallers :
          arena.callers[c].pc = "returned" =>
              /\ arena.instance.init = "done"
              /\ arena.callers[c].got = "map"

====
